---- MODULE Spec2Model ----
(***************************************************************************)
(* DESCHRAMBLER.                                                           *)
(*                                                                         *)
(* Stage 2: the greedy chain assembler of src/code/deschrambler.cpp.  The   *)
(* program reads a table of weighted, signed block adjacencies, keeps the  *)
(* entries of positive weight, visits them by non-increasing weight and    *)
(* grows chains (lists of edges) by prepending, appending and merging, and *)
(* finally prints one contig per chain.  Weights are doubles in the        *)
(* program and are only compared and copied; they are modelled by the      *)
(* naturals 0..MaxWeight.                                                  *)
(*                                                                         *)
(* Stage 1: the adjacency probabilities of src/code/inferAdjProb.c: the    *)
(* index space and its folding function, the tree, the compatibility       *)
(* matrix and the likelihood tables.  The machines share pc and are run    *)
(* one at a time: Spec and TermSpec for stage 2, FoldSpec for map and pam, *)
(* TreeSpec for readTreeString, identifyOutgroup and modifyTree, ProbSpec  *)
(* for main from calculateTotalEle on.  Likelihoods are doubles in the     *)
(* program; ProbSpec keeps them exact for branches of length 0 and of      *)
(* length Long, as integers in units fixed by the node, and keeps a        *)
(* normalised value as the pair of its numerator and its denominator.      *)
(***************************************************************************)
EXTENDS Integers, Sequences, FiniteSets, Bags

(* ------------------------------ bounds -------------------------------- *)
\* Largest block id of the tables enumerated line by line (FreeTables, SortedTables).
MaxBlock == 2
\* Largest score of a line of those tables; the thresholds go one further,
\* so that every score is also met below the threshold.
MaxWeight == 1
\* Longest table whose lines are enumerated in every order, with duplicates,
\* self-pairs and zero scores.
MaxFree == 2
\* Blocks of the longest path-shaped and cycle-shaped table.
MaxPath == 4
MaxCycle == 3
\* Largest number of elements T of the index spaces the folding function is
\* applied in.
MaxFoldT == 6
\* Leaves of the largest tree read from a tree file.
MaxLeaves == 4
\* Largest element id in a genome file or a joins file.
MaxEle == 3
\* Elements of the longest chromosome.
MaxGenome == 2

(* --------------------------- program state ---------------------------- *)
VARIABLES
    input,          \* the score file: a sequence of lines  bid1 bid2 adjscore
    gMIN_WEIGHT,    \* argv[1]
    mapAdjScores,   \* map<Edge,double>: both readings of every line
    numblocks,      \* largest |block id| read
    vecEdges,       \* the entries of the sorted vector not visited yet
    outcome,        \* history: entry visited so far -> what its iteration did
    mapUsed,        \* the keys of map<int,int> mapUsed
    mapClasses,     \* map<int, list<Edge> >: chain id -> list of edges
    clscnt,         \* number of chains created so far
    out_anc,        \* the contigs written by printLists, one per chain
    out_join,       \* the lines of the join file
    pc,             \* the statement the running program is at
    \* src/code/inferAdjProb.c
    T,              \* static int T: number of elements of the reference genome
    Z,              \* static int Z: the Hi index, 2T+1
    N,              \* static int N: size of the index space, Z+1
    fold_i,         \* the index handed to map / pam
    fold_calls,     \* history: the calls of map and pam made so far
    treeString,     \* the line of the tree file, one character per element
    pt,             \* char *pt, as a position in treeString (1 = first)
    stack,          \* struct phyloTree *stack[STACKSZ]: slot -> node, the slots written so far
    top,            \* int top
    p,              \* struct phyloTree *p (0 = NULL)
    dcap,           \* double dcap
    count,          \* int count: unnamed inner nodes so far
    nodes,          \* the heap of struct phyloTree: nodes[n] is node n
    Ances,          \* static struct phyloTree *Ances
    Phylo,          \* static struct phyloTree *Phylo
    oob,            \* history: a slot of stack that was never written has been used
    pre_reroot,     \* history: <<nodes, Phylo, Ances>> when modifyTree was entered
    written,        \* history: node -> the branch length read after it in the tree file
    genome,         \* leaf -> its chromosomes in the genome file, each a sequence of signed ids
    joins,          \* outgroup leaf -> the lines  x y  of its file <name>.joins
    leafP,          \* leaf -> struct nodeList.P: the bit positions that are set
    there,          \* leaf -> struct nodeList.there: the indices marked YES
    DPPI,           \* unsigned char *DPPI: the bit positions that are set
    PLH,            \* struct matrix *PLH: <<i, j>> -> val, the entries made so far
    SLH,            \* struct matrix *SLH
    PPP,            \* struct matrix *PPP; a val is <<numerator, denominator>>
    SPP,            \* struct matrix *SPP
    lp_cache,       \* the hash lp_cache: <<node, i, j>> -> value
    ll_cache,       \* the hash ll_cache: <<node, i, j>> -> value
    computed,       \* history: the calls of prob and preLikelihood made so far, as a bag
    hits,           \* history: <<cache, key, value>> of the lookups answered from a cache
    cur,            \* <<j, i>> of the loops of getPredecessor
    table           \* the lines written to adjacencies.prob

\* The state of deschrambler.cpp (pc apart) and the state of inferAdjProb.c.
dvars == <<input, gMIN_WEIGHT, mapAdjScores, numblocks, vecEdges, outcome,
           mapUsed, mapClasses, clscnt, out_anc, out_join>>
foldvars == <<T, Z, N, fold_i, fold_calls>>
treevars == <<treeString, pt, stack, top, p, dcap, count, nodes, Ances, Phylo, oob, written,
              pre_reroot>>
probvars == <<genome, joins, leafP, there, DPPI, PLH, SLH, PPP, SPP, lp_cache, ll_cache,
              computed, hits, cur, table>>
avars == <<foldvars, treevars, probvars>>

vars == <<dvars, pc, avars>>

Abs(x) == IF x < 0 THEN -x ELSE x

(* ------------------------------ class Edge ---------------------------- *)
Edge(b1, d1, b2, d2) == [bid1 |-> b1, dir1 |-> d1, bid2 |-> b2, dir2 |-> d2]

\* The four key fields of a chain edge (operator< compares only these).
Key(e) == Edge(e.bid1, e.dir1, e.bid2, e.dir2)

\* Edge::reverse with the swap of the ends alone.
reverseWithoutFlip(e) ==
    [bid1 |-> e.bid2, dir1 |-> e.dir2, bid2 |-> e.bid1, dir2 |-> e.dir1,
     weight |-> e.weight]

\* Edge::reverse: swap the two ends, then flip both directions.
reverse(e) ==
    [bid1 |-> e.bid2, dir1 |-> (IF e.dir2 = 1 THEN -1 ELSE 1),
     bid2 |-> e.bid1, dir2 |-> (IF e.dir1 = 1 THEN -1 ELSE 1),
     weight |-> e.weight]

(* ------------------------- reading the scores ------------------------- *)
Put(m, k, v) == [x \in (DOMAIN m) \cup {k} |-> IF x = k THEN v ELSE m[x]]

EmptyMap == [x \in {} |-> 0]

\* One pass of the while loop of main: the line is stored under its forward
\* reading bpf and under its reverse-complement bpr, a later line overwriting
\* an earlier one with the same key.
ReadLine(m, ln) ==
    LET bindex1 == Abs(ln.b1)
        bindex2 == Abs(ln.b2)
        intdir1 == IF ln.b1 < 0 THEN -1 ELSE 1
        intdir2 == IF ln.b2 < 0 THEN -1 ELSE 1
        bpf == Edge(bindex1, intdir1, bindex2, intdir2)
        bpr == Edge(bindex2, -intdir2, bindex1, -intdir1)
    IN  Put(Put(m, bpf, ln.score), bpr, ln.score)

RECURSIVE ReadFile(_, _, _)
ReadFile(m, lines, k) ==
    IF k > Len(lines) THEN m ELSE ReadFile(ReadLine(m, lines[k]), lines, k + 1)

RECURSIVE MaxBid(_, _, _)
MaxBid(n, lines, k) ==
    IF k > Len(lines) THEN n
    ELSE LET n1 == IF Abs(lines[k].b1) > n THEN Abs(lines[k].b1) ELSE n
             n2 == IF Abs(lines[k].b2) > n1 THEN Abs(lines[k].b2) ELSE n1
         IN  MaxBid(n2, lines, k + 1)

(* ------------------------- computing the weights ---------------------- *)
compute_weight(b1, d1, b2, d2, mapscore1) ==
    IF Edge(b1, d1, b2, d2) \in DOMAIN mapscore1
    THEN mapscore1[Edge(b1, d1, b2, d2)] ELSE 0

\* The double loop of main over i, j in 0..numblocks and the four
\* orientations: the keys of mapWeights.
WeightKeys(n, scores) ==
    {e \in {Edge(i, d1, j, d2) : i \in 0..n, j \in 0..n, d1 \in {1, -1}, d2 \in {1, -1}} :
        /\ e.bid1 # e.bid2
        /\ compute_weight(e.bid1, e.dir1, e.bid2, e.dir2, scores) > 0}

mapWeightsOf(n, scores) ==
    [e \in WeightKeys(n, scores) |-> compute_weight(e.bid1, e.dir1, e.bid2, e.dir2, scores)]

\* cmp with the comparison turned round (ascending weights).
cmpAscending(p1, p2) == p1.second < p2.second

\* cmp: the strict order std::sort is given.
cmp(p1, p2) == p1.second > p2.second

(* ------------------------------ insertEdge ---------------------------- *)
SUCCESS == "SUCCESS"
FAIL == "FAIL"
CYCLE == "CYCLE"

Ret(r, le, used) == [res |-> r, le |-> le, used |-> used]

\* The key under which the first end of e is registered, and the second.
UsedKey1(e) == IF e.dir1 = 1 THEN -e.bid1 ELSE e.bid1
UsedKey2(e) == IF e.dir2 = 1 THEN e.bid2 ELSE -e.bid2

\* insertEdge without its tests for a cycle.
insertEdgeNoCycleTest(le, e, used) ==
    LET fe == le[1]
        be == le[Len(le)]
        r  == reverse(e)
    IN  IF fe.bid1 = e.bid1 /\ fe.dir1 # e.dir1 THEN
            Ret(SUCCESS, <<r>> \o le, used \cup {fe.bid1, -fe.bid1} \cup {UsedKey1(r)})
        ELSE IF fe.bid1 = e.bid2 /\ fe.dir1 = e.dir2 THEN
            IF fe.bid1 = 0 THEN Ret(FAIL, le, used)
            ELSE Ret(SUCCESS, <<e>> \o le, used \cup {fe.bid1, -fe.bid1} \cup {UsedKey1(e)})
        ELSE IF be.bid2 = e.bid1 /\ be.dir2 = e.dir1 THEN
            IF be.bid2 = 0 THEN Ret(FAIL, le, used)
            ELSE Ret(SUCCESS, Append(le, e), used \cup {be.bid2, -be.bid2} \cup {UsedKey2(e)})
        ELSE IF be.bid2 = e.bid2 /\ be.dir2 # e.dir2 THEN
            Ret(SUCCESS, Append(le, r), used \cup {be.bid2, -be.bid2} \cup {UsedKey2(r)})
        ELSE Ret(FAIL, le, used)

insertEdge(le, e, used) ==
    LET fe == le[1]
        be == le[Len(le)]
        r  == reverse(e)
    IN  IF fe.bid1 = e.bid1 /\ fe.dir1 # e.dir1 THEN
            IF be.bid2 = e.bid2 /\ be.dir2 # e.dir2 THEN Ret(CYCLE, le, used)
            ELSE Ret(SUCCESS, <<r>> \o le,
                     used \cup {fe.bid1, -fe.bid1} \cup {UsedKey1(r)})
        ELSE IF fe.bid1 = e.bid2 /\ fe.dir1 = e.dir2 THEN
            IF fe.bid1 = 0 THEN Ret(FAIL, le, used)
            ELSE IF be.bid2 = e.bid1 /\ be.dir2 = e.dir1 THEN Ret(CYCLE, le, used)
            ELSE Ret(SUCCESS, <<e>> \o le,
                     used \cup {fe.bid1, -fe.bid1} \cup {UsedKey1(e)})
        ELSE IF be.bid2 = e.bid1 /\ be.dir2 = e.dir1 THEN
            IF be.bid2 = 0 THEN Ret(FAIL, le, used)
            ELSE IF fe.bid1 = e.bid2 /\ fe.dir1 = e.dir2 THEN Ret(CYCLE, le, used)
            ELSE Ret(SUCCESS, Append(le, e),
                     used \cup {be.bid2, -be.bid2} \cup {UsedKey2(e)})
        ELSE IF be.bid2 = e.bid2 /\ be.dir2 # e.dir2 THEN
            IF fe.bid1 = e.bid1 /\ fe.dir1 # e.dir1 THEN Ret(CYCLE, le, used)
            ELSE Ret(SUCCESS, Append(le, r),
                     used \cup {be.bid2, -be.bid2} \cup {UsedKey2(r)})
        ELSE Ret(FAIL, le, used)

(* ------------------------------ mergeLists ---------------------------- *)
\* for (liter = le2.begin(); ...) { e2.reverse(); le1.push_front(e2); }
RECURSIVE PushFrontReversed(_, _, _)
PushFrontReversed(le1, le2, k) ==
    IF k > Len(le2) THEN le1
    ELSE PushFrontReversed(<<reverse(le2[k])>> \o le1, le2, k + 1)

\* for (rliter = le2.rbegin(); ...) { e2.reverse(); le1.push_back(e2); }
RECURSIVE PushBackReversed(_, _, _)
PushBackReversed(le1, le2, k) ==
    IF k < 1 THEN le1
    ELSE PushBackReversed(Append(le1, reverse(le2[k])), le2, k - 1)

\* mergeLists without mapClasses.erase(j): the chain spliced in stays.
EraseNothing(mc, j) == mc

Erase(mc, j) == [c \in (DOMAIN mc) \ {j} |-> mc[c]]

\* One pass of the loop over j: chain clsid against chain j.
MergeOne(clsid, j, mc) ==
    LET le1 == mc[clsid]
        le2 == mc[j]
        e1front == le1[1]
        e1back  == le1[Len(le1)]
        e2front == le2[1]
        e2back  == le2[Len(le2)]
        Done(l) == Erase([mc EXCEPT ![clsid] = l], j)
    IN  IF e1front.bid1 = e2front.bid1 /\ e1front.dir1 # e2front.dir1 THEN
            IF e1back.bid2 = 0 \/ e2back.bid2 = 0 \/ e1back.bid2 # e2back.bid2
            THEN Done(PushFrontReversed(le1, le2, 1)) ELSE mc
        ELSE IF e1front.bid1 = e2back.bid2 /\ e1front.dir1 = e2back.dir2 THEN
            IF e1front.bid1 # 0 /\
               (e1back.bid2 = 0 \/ e2front.bid1 = 0 \/ e1back.bid2 # e2front.bid1)
            THEN Done(le2 \o le1) ELSE mc
        ELSE IF e1back.bid2 = e2front.bid1 /\ e1back.dir2 = e2front.dir1 THEN
            IF e1back.bid2 # 0 /\
               (e1front.bid1 = 0 \/ e2back.bid2 = 0 \/ e1front.bid1 # e2back.bid2)
            THEN Done(le1 \o le2) ELSE mc
        ELSE IF e1back.bid2 = e2back.bid2 /\ e1back.dir2 # e2back.dir2 THEN
            IF e1front.bid1 = 0 \/ e2front.bid1 = 0 \/ e1front.bid1 # e2front.bid1
            THEN Done(PushBackReversed(le1, le2, Len(le2))) ELSE mc
        ELSE mc

RECURSIVE MergeFrom(_, _, _, _)
MergeFrom(j, cnt, clsid, mc) ==
    IF j > cnt THEN mc
    ELSE IF j = clsid \/ j \notin DOMAIN mc THEN MergeFrom(j + 1, cnt, clsid, mc)
    ELSE MergeFrom(j + 1, cnt, clsid, MergeOne(clsid, j, mc))

\* mergeLists with the loop stopping one chain early (j < clscnt).
mergeListsStopsEarly(cnt, clsid, mc) == MergeFrom(1, cnt - 1, clsid, mc)

mergeLists(cnt, clsid, mc) == MergeFrom(1, cnt, clsid, mc)

(* ------------------------------ printLists ---------------------------- *)
\* The signed block ids written for one chain, up to the closing "$".
RECURSIVE ContigFrom(_, _)
ContigFrom(le, k) ==
    IF k > Len(le) THEN <<>>
    ELSE LET e == le[k]
             one == IF e.bid1 # 0 THEN <<e.bid1 * e.dir1>> ELSE <<>>
             two == IF k = Len(le) /\ e.bid2 # 0 THEN <<e.bid2 * e.dir2>> ELSE <<>>
         IN  one \o two \o ContigFrom(le, k + 1)

JoinLines(le) == [k \in 1..Len(le) |->
                    <<le[k].bid1 * le[k].dir1, le[k].bid2 * le[k].dir2, le[k].weight>>]

\* The chain ids in the iteration order of the map (ascending).
RECURSIVE Ascending(_)
Ascending(S) ==
    IF S = {} THEN <<>>
    ELSE LET m == CHOOSE x \in S : \A y \in S : x <= y
         IN  <<m>> \o Ascending(S \ {m})

RECURSIVE Flatten(_, _)
Flatten(ss, k) == IF k > Len(ss) THEN <<>> ELSE ss[k] \o Flatten(ss, k + 1)

printAnc(mc) ==
    LET ids == Ascending(DOMAIN mc)
    IN  [k \in 1..Len(ids) |-> ContigFrom(mc[ids[k]], 1)]

printJoin(mc) ==
    LET ids == Ascending(DOMAIN mc)
    IN  Flatten([k \in 1..Len(ids) |-> JoinLines(mc[ids[k]])], 1)

\* The parts of inferAdjProb that are not running.
FoldIdle ==
    /\ T = 0 /\ Z = 0 /\ N = 0
    /\ fold_i = 0
    /\ fold_calls = <<>>

TreeIdle ==
    /\ treeString = <<>>
    /\ pt = 1
    /\ stack = EmptyMap
    /\ top = 0
    /\ p = 0
    /\ dcap = 0
    /\ count = 0
    /\ nodes = <<>>
    /\ Ances = 0
    /\ Phylo = 0
    /\ oob = FALSE
    /\ pre_reroot = <<>>
    /\ written = EmptyMap

ProbIdle ==
    /\ genome = EmptyMap
    /\ joins = EmptyMap
    /\ leafP = EmptyMap
    /\ there = EmptyMap
    /\ DPPI = {}
    /\ PLH = EmptyMap
    /\ SLH = EmptyMap
    /\ PPP = EmptyMap
    /\ SPP = EmptyMap
    /\ lp_cache = EmptyMap
    /\ ll_cache = EmptyMap
    /\ computed = EmptyMap
    /\ hits = {}
    /\ cur = <<0, 0>>
    /\ table = <<>>

AdjIdle == FoldIdle /\ TreeIdle /\ ProbIdle

(* ------------------------------ the inputs ---------------------------- *)
Line(a, b, w) == [b1 |-> a, b2 |-> b, score |-> w]

Ids == (-MaxBlock)..MaxBlock

\* Every line over the block ids, zero scores and self-pairs included.
Lines == {Line(a, b, w) : a \in Ids, b \in Ids, w \in 0..MaxWeight}

\* One line for each key pair {bpf, bpr} of positive score over distinct
\* blocks: "a b" and "-b -a" are read into the same two entries unless one
\* of the ids is 0, which has no sign in the file.
ProperLines == {ln \in {Line(a, b, w) : a \in Ids, b \in Ids, w \in 1..MaxWeight} :
                   \/ Abs(ln.b1) < Abs(ln.b2)
                   \/ ln.b2 = 0 /\ ln.b1 # 0}

LineBefore(x, y) ==
    \/ x.b1 < y.b1
    \/ x.b1 = y.b1 /\ x.b2 < y.b2

\* Tables of at most MaxFree lines, in every order.
FreeTables == UNION {[1..n -> Lines] : n \in 0..MaxFree}

\* Tables of MaxFree + 1 proper lines with pairwise distinct block pairs,
\* listed in ascending order (the pass depends on the file only through
\* mapAdjScores, which does not record the order of the lines).  Entries of
\* equal weight are visited in every order, so lines of equal weight make the
\* pass take every order that some choice of weights would give it.
SortedTables == {t \in [1..(MaxFree + 1) -> ProperLines] :
                    \A k \in 1..MaxFree : LineBefore(t[k], t[k + 1])}

\* Signed orders of n distinct blocks out of 1..n.
SignedOrders(n) ==
    {s \in [1..n -> ((-n)..n) \ {0}] :
        \A i, j \in 1..n : i # j => Abs(s[i]) # Abs(s[j])}

\* The weights of m lines: strictly ordered in every way, or all equal.
RankedWeights(m) ==
    {w \in [1..m -> 1..m] :
        \/ \A i, j \in 1..m : i # j => w[i] # w[j]
        \/ \A i \in 1..m : w[i] = 1}

\* A path s[1] -> s[2] -> ... -> s[n], each adjacency listed once; a path
\* and its reverse complement are read into the same entries, so one of the
\* two is listed.
PathTables ==
    UNION {{[k \in 1..(n - 1) |-> Line(s[k], s[k + 1], w[k])] :
               s \in {o \in SignedOrders(n) : Abs(o[1]) < Abs(o[n])},
               w \in RankedWeights(n - 1)} :
           n \in 2..MaxPath}

\* A cycle s[1] -> ... -> s[n] -> s[1].
CycleTables ==
    UNION {{[k \in 1..n |-> Line(s[k], s[(k % n) + 1], w[k])] :
               s \in SignedOrders(n), w \in RankedWeights(n)} :
           n \in 2..MaxCycle}

ShapedTables == SortedTables \cup PathTables \cup CycleTables

(* ------------------------------ the program --------------------------- *)
Init ==
    /\ \/ input \in FreeTables /\ gMIN_WEIGHT \in 0..(MaxWeight + 1)
       \/ input \in ShapedTables /\ gMIN_WEIGHT = 0
    /\ mapAdjScores = EmptyMap
    /\ numblocks = 0
    /\ vecEdges = {}
    /\ outcome = EmptyMap
    /\ mapUsed = {}
    /\ mapClasses = EmptyMap
    /\ clscnt = 0
    /\ out_anc = <<>>
    /\ out_join = <<>>
    /\ pc = "read"
    /\ AdjIdle

\* main, lines 283-306: read the adjacency scores.
ReadScores ==
    /\ pc = "read"
    /\ mapAdjScores' = ReadFile(EmptyMap, input, 1)
    /\ numblocks' = MaxBid(0, input, 1)
    /\ pc' = "weights"
    /\ UNCHANGED <<input, gMIN_WEIGHT, vecEdges, outcome, mapUsed, mapClasses,
                   clscnt, out_anc, out_join, avars>>

\* main, lines 308-328: mapWeights, copied to vecEdges and sorted.  std::sort
\* leaves the relative order of entries of equal weight unspecified, so the
\* sorted vector is kept as the set of its entries and each iteration visits
\* any entry that no unvisited entry precedes under cmp.
ComputeWeights ==
    /\ pc = "weights"
    /\ LET mapWeights == mapWeightsOf(numblocks, mapAdjScores)
       IN  vecEdges' = {[first |-> e, second |-> mapWeights[e]] : e \in DOMAIN mapWeights}
    /\ pc' = "greedy"
    /\ UNCHANGED <<input, gMIN_WEIGHT, mapAdjScores, numblocks, outcome, mapUsed,
                   mapClasses, clscnt, out_anc, out_join, avars>>

\* vecEdges.at(i): the next entry of the sorted vector.
IsNext(q) == q \in vecEdges /\ \A o \in vecEdges : ~cmp(o, q)

\* Edge& e = p.first; e.weight = p.second;
EdgeOf(q) == [bid1 |-> q.first.bid1, dir1 |-> q.first.dir1,
              bid2 |-> q.first.bid2, dir2 |-> q.first.dir2, weight |-> q.second]

\* The threshold test with <= for <.
BelowMinOrEqual(e) == e.weight <= gMIN_WEIGHT

\* main, line 345.
BelowMin(e) == e.weight < gMIN_WEIGHT

\* The registry test without its second half (lines 353-357).
EndInUseFirstOnly(e, used) == e.bid1 # 0 /\ UsedKey1(e) \in used

\* main, lines 347-357: one non-sentinel end of e is in the registry.
EndInUse(e, used) ==
    \/ e.bid1 # 0 /\ UsedKey1(e) \in used
    \/ e.bid2 # 0 /\ UsedKey2(e) \in used

\* main, lines 359-368: the chains in ascending id order up to the first one
\* for which insertEdge does not return FAIL (0 when every chain fails).
FirstChain(e, mc, used) ==
    LET hit == {c \in DOMAIN mc : insertEdge(mc[c], e, used).res # FAIL}
    IN  IF hit = {} THEN 0 ELSE CHOOSE c \in hit : \A d \in hit : c <= d

\* The loop without i++: the entry stays in front of the vector.
VisitedNotAdvancing(q, r) ==
    /\ vecEdges' = vecEdges
    /\ outcome' = Put(outcome, q.first, r)
    /\ UNCHANGED <<input, gMIN_WEIGHT, mapAdjScores, numblocks, out_anc, out_join, pc, avars>>

\* for (i = 0; i < vecEdges.size(); i++): the loop moves past the entry.
Visited(q, r) ==
    /\ vecEdges' = vecEdges \ {q}
    /\ outcome' = Put(outcome, q.first, r)
    /\ UNCHANGED <<input, gMIN_WEIGHT, mapAdjScores, numblocks, out_anc, out_join, pc, avars>>

\* if (e.weight < gMIN_WEIGHT) continue;
SkipBelowMin ==
    /\ pc = "greedy"
    /\ \E q \in vecEdges :
        /\ IsNext(q)
        /\ BelowMin(EdgeOf(q))
        /\ Visited(q, "BELOW")
        /\ UNCHANGED <<mapUsed, mapClasses, clscnt>>

\* if (uiter != mapUsed.end()) continue;
SkipUsed ==
    /\ pc = "greedy"
    /\ \E q \in vecEdges :
        /\ IsNext(q)
        /\ ~BelowMin(EdgeOf(q))
        /\ EndInUse(EdgeOf(q), mapUsed)
        /\ Visited(q, "USED")
        /\ UNCHANGED <<mapUsed, mapClasses, clscnt>>

\* main with found set on SUCCESS alone: a rejected cycle edge starts a chain.
AfterScanCycleNotFound(e, c, mc, used, cnt) ==
    LET new == [mc   |-> Put(mc, cnt + 1, <<e>>),
                used |-> used \cup (IF e.bid1 # 0 THEN {UsedKey1(e)} ELSE {})
                              \cup (IF e.bid2 # 0 THEN {UsedKey2(e)} ELSE {}),
                cnt  |-> cnt + 1]
    IN  IF c = 0 THEN new
        ELSE LET r == insertEdge(mc[c], e, used)
             IN  IF r.res = SUCCESS
                 THEN [mc   |-> mergeLists(cnt, c, [mc EXCEPT ![c] = r.le]),
                       used |-> r.used, cnt |-> cnt]
                 ELSE new

\* main without lines 374-381: the ends of a new chain's edge stay free.
AfterScanNewUnregistered(e, c, mc, used, cnt) ==
    IF c = 0 THEN [mc |-> Put(mc, cnt + 1, <<e>>), used |-> used, cnt |-> cnt + 1]
    ELSE LET r == insertEdge(mc[c], e, used)
         IN  IF r.res = SUCCESS
             THEN [mc   |-> mergeLists(cnt, c, [mc EXCEPT ![c] = r.le]),
                   used |-> r.used, cnt |-> cnt]
             ELSE [mc |-> mc, used |-> used, cnt |-> cnt]

\* What main does with the result of the scan: the chains, the registry and
\* the chain counter after the iteration.
AfterScan(e, c, mc, used, cnt) ==
    IF c = 0 THEN
        [mc   |-> Put(mc, cnt + 1, <<e>>),
         used |-> used \cup (IF e.bid1 # 0 THEN {UsedKey1(e)} ELSE {})
                       \cup (IF e.bid2 # 0 THEN {UsedKey2(e)} ELSE {}),
         cnt  |-> cnt + 1]
    ELSE LET r == insertEdge(mc[c], e, used)
         IN  IF r.res = SUCCESS
             THEN [mc   |-> mergeLists(cnt, c, [mc EXCEPT ![c] = r.le]),
                   used |-> r.used, cnt |-> cnt]
             ELSE [mc |-> mc, used |-> used, cnt |-> cnt]

Scan(q, r) ==
    LET e == EdgeOf(q)
        c == FirstChain(e, mapClasses, mapUsed)
        a == AfterScan(e, c, mapClasses, mapUsed, clscnt)
    IN  /\ IsNext(q)
        /\ ~BelowMin(e)
        /\ ~EndInUse(e, mapUsed)
        /\ r = (IF c = 0 THEN "NEW" ELSE insertEdge(mapClasses[c], e, mapUsed).res)
        /\ mapClasses' = a.mc
        /\ mapUsed' = a.used
        /\ clscnt' = a.cnt
        /\ Visited(q, r)

\* insertEdge returned SUCCESS for some chain: the edge is in, mergeLists ran.
Insert == pc = "greedy" /\ \E q \in vecEdges : Scan(q, SUCCESS)

\* insertEdge returned CYCLE for some chain.
RejectCycle == pc = "greedy" /\ \E q \in vecEdges : Scan(q, CYCLE)

\* found == false: a new chain.
NewChain == pc = "greedy" /\ \E q \in vecEdges : Scan(q, "NEW")

\* main, line 386.
PrintLists ==
    /\ pc = "greedy"
    /\ vecEdges = {}
    /\ out_anc' = printAnc(mapClasses)
    /\ out_join' = printJoin(mapClasses)
    /\ pc' = "done"
    /\ UNCHANGED <<input, gMIN_WEIGHT, mapAdjScores, numblocks, vecEdges, outcome,
                   mapUsed, mapClasses, clscnt, avars>>

Next ==
    \/ ReadScores
    \/ ComputeWeights
    \/ SkipBelowMin
    \/ SkipUsed
    \/ Insert
    \/ RejectCycle
    \/ NewChain
    \/ PrintLists

Spec == Init /\ [][Next]_vars

(* --------------------- the program under fair scheduling -------------- *)
\* Orders of the blocks 1..n, every block read forwards.
ForwardOrders(n) == {s \in SignedOrders(n) : \A i \in 1..n : s[i] > 0}

DistinctWeights(m) == {w \in RankedWeights(m) : \A i, j \in 1..m : i # j => w[i] # w[j]}

\* The paths over MaxPath forward blocks, one of each pair of mirror images.
TermPaths ==
    {[k \in 1..(MaxPath - 1) |-> Line(s[k], s[k + 1], w[k])] :
        s \in {o \in ForwardOrders(MaxPath) : o[1] < o[MaxPath]},
        w \in DistinctWeights(MaxPath - 1)}

\* The cycles over MaxPath forward blocks, one of each class of rotations
\* and mirror images.
TermCycles ==
    {[k \in 1..MaxPath |-> Line(s[k], s[(k % MaxPath) + 1], w[k])] :
        s \in {o \in ForwardOrders(MaxPath) : o[1] = 1 /\ o[2] < o[MaxPath]},
        w \in DistinctWeights(MaxPath)}

TermInit ==
    /\ \/ input \in {t \in FreeTables : Len(t) <= 1} /\ gMIN_WEIGHT \in 0..(MaxWeight + 1)
       \/ input \in TermPaths \cup TermCycles /\ gMIN_WEIGHT = 0
    /\ mapAdjScores = EmptyMap
    /\ numblocks = 0
    /\ vecEdges = {}
    /\ outcome = EmptyMap
    /\ mapUsed = {}
    /\ mapClasses = EmptyMap
    /\ clscnt = 0
    /\ out_anc = <<>>
    /\ out_join = <<>>
    /\ pc = "read"
    /\ AdjIdle

\* main is one sequential loop: whenever a step is possible the program
\* takes it.
TermSpec == TermInit /\ [][Next]_vars /\ WF_vars(Next)

(* ====================================================================== *)
(* src/code/inferAdjProb.c                                                *)
(* ====================================================================== *)
\* deschrambler is not running.
DeschIdle ==
    /\ input = <<>>
    /\ gMIN_WEIGHT = 0
    /\ mapAdjScores = EmptyMap
    /\ numblocks = 0
    /\ vecEdges = {}
    /\ outcome = EmptyMap
    /\ mapUsed = {}
    /\ mapClasses = EmptyMap
    /\ clscnt = 0
    /\ out_anc = <<>>
    /\ out_join = <<>>

(* ----------------------------- map and pam ---------------------------- *)
\* static int A = 0: the Lo index.
A == 0

\* map with < for <= in its last line.
mapStrict(i) ==
    IF i = A THEN Z
    ELSE IF i = Z THEN A
    ELSE IF i < T THEN i + T ELSE i - T

map(i) ==
    IF i = A THEN Z
    ELSE IF i = Z THEN A
    ELSE IF i <= T THEN i + T ELSE i - T

pam(i) ==
    IF i = Z THEN A
    ELSE IF i <= T THEN i ELSE -(i - T)

\* The index spaces of T = 0..MaxFoldT elements as initSets lays them out
\* (Z = 2 * T + 1; N = Z + 1), and an index of the space.
FoldInit ==
    /\ DeschIdle
    /\ TreeIdle
    /\ ProbIdle
    /\ T \in 0..MaxFoldT
    /\ Z = 2 * T + 1
    /\ N = Z + 1
    /\ fold_i \in 0..Z
    /\ fold_calls = <<>>
    /\ pc = "fold"

\* The index the next call is made on: the result of the last call of map,
\* or fold_i when map has not been called.
FoldArg == IF fold_calls = <<>> THEN fold_i ELSE fold_calls[Len(fold_calls)].ret

\* i = map(i): the index is folded, at most twice in a row.
CallMap ==
    /\ pc = "fold"
    /\ Len(fold_calls) < 2
    /\ \A k \in 1..Len(fold_calls) : fold_calls[k].f = "map"
    /\ fold_calls' = Append(fold_calls, [f |-> "map", arg |-> FoldArg, ret |-> map(FoldArg)])
    /\ UNCHANGED <<dvars, pc, T, Z, N, fold_i, treevars, probvars>>

\* pam(i): the signed id an index is printed as.
CallPam ==
    /\ pc = "fold"
    /\ Len(fold_calls) < 2
    /\ \A k \in 1..Len(fold_calls) : fold_calls[k].f = "map"
    /\ fold_calls' = Append(fold_calls, [f |-> "pam", arg |-> FoldArg, ret |-> pam(FoldArg)])
    /\ UNCHANGED <<dvars, pc, T, Z, N, fold_i, treevars, probvars>>

FoldNext == CallMap \/ CallPam

FoldSpec == FoldInit /\ [][FoldNext]_vars

(* ------------------------------ the tree ------------------------------ *)
\* #define STACKSZ 50000
STACKSZ == 50000

\* The rate argv[2] every branch length is multiplied by, taken as 1.
alpha == 1

\* The value of a pointer read from outside the array stack: the address
\* of no node.
WILD == -1

isSepSymbol(ch) == ch \in {",", "(", ")", ";", ":"}

\* *pt for pt at position k; "NUL" is the byte that ends the string.
CharAt(k) == IF k \in 1..Len(treeString) THEN treeString[k] ELSE "NUL"

\* for (...; !isSepSymbol(*pt); pt++): the position the loop stops at, 0
\* when no separator follows.
NextSep(k) ==
    LET S == {x \in k..Len(treeString) : isSepSymbol(treeString[x])}
    IN  IF S = {} THEN 0 ELSE CHOOSE x \in S : \A y \in S : x <= y

Digits == <<"0", "1", "2", "3", "4", "5", "6", "7", "8", "9">>
IsDigit(ch) == \E d \in 1..10 : Digits[d] = ch
DigitVal(ch) == (CHOOSE d \in 1..10 : Digits[d] = ch) - 1

\* sscanf(pt, "%lf", &dcap) on a run of digits.
RECURSIVE ScanNumber(_, _)
ScanNumber(k, acc) ==
    IF IsDigit(CharAt(k)) THEN ScanNumber(k + 1, acc * 10 + DigitVal(CharAt(k))) ELSE acc

\* AllocVar(*node) and the assignments of allocTreeNode: a zeroed node.
allocTreeNode ==
    [name |-> <<>>, parent |-> 0, left |-> 0, right |-> 0, distalpha |-> 0,
     outgroup |-> FALSE]

\* sprintf(buf, "IN%d", k)
GeneratedName(k) == <<"I", "N", Digits[k + 1]>>

\* q->child[side] = pp; pp->parent = q; pp->distalpha = dcap*alpha; a write
\* through a pointer that is no node changes no node.
Link(ns, q, side, pp, dc) ==
    LET a == IF q \in 1..Len(ns) THEN [ns EXCEPT ![q][side] = pp] ELSE ns
    IN  IF pp \in 1..Len(a)
        THEN [a EXCEPT ![pp].parent = q, ![pp].distalpha = dc * alpha]
        ELSE a

SetName(ns, q, nm) == IF q \in 1..Len(ns) THEN [ns EXCEPT ![q].name = nm] ELSE ns

\* The state readTreeString is left in by one pass of its loop.
Step(l, ptn, stk, tp, pn, dc, cnt, ns, an, ob, wr) ==
    /\ pc' = l
    /\ pt' = ptn
    /\ stack' = stk
    /\ top' = tp
    /\ p' = pn
    /\ dcap' = dc
    /\ count' = cnt
    /\ nodes' = ns
    /\ Ances' = an
    /\ oob' = ob
    /\ written' = wr
    /\ UNCHANGED <<treeString, Phylo, pre_reroot, dvars, foldvars, probvars>>

\* A pass that reads no branch length.
Goto(l, ptn, stk, tp, pn, dc, cnt, ns, an, ob) ==
    Step(l, ptn, stk, tp, pn, dc, cnt, ns, an, ob, written)

\* The process dies on a signal: no error message, no tree.
Crash(ns, pn, ptn, ob) == Goto("crash", ptn, stack, top, pn, dcap, count, ns, Ances, ob)

\* case ':'
CaseColon(ns1, p1, pt1) ==
    LET k == pt1 + 1
        e == NextSep(k)
    IN  IF ~IsDigit(CharAt(k))
        THEN Goto("errAbort", k, stack, top, p1, dcap, count, ns1, Ances, oob)
        ELSE IF e = 0 THEN Crash(ns1, p1, k, oob)
        ELSE Step("parse", e, stack, top, p1, ScanNumber(k, 0), count, ns1, Ances, oob,
                  Put(written, p1, ScanNumber(k, 0)))

\* case '(': stack[top++] = p.  With top < 0 the write falls outside the
\* array: the process dies or runs on with the array as it was.
CaseOpen(ns1, p1, pt1) ==
    LET ns2 == Append(ns1, allocTreeNode)
        pn  == Len(ns2)
    IN  IF top + 1 > STACKSZ
        THEN Goto("errAbort", pt1, stack, top, pn, dcap, count, ns2, Ances, oob)
        ELSE IF top >= 0
        THEN Goto("parse", pt1 + 1, Put(stack, top, pn), top + 1, pn, dcap, count, ns2,
                  Ances, oob)
        ELSE \/ Goto("parse", pt1 + 1, stack, top + 1, pn, dcap, count, ns2, Ances, TRUE)
             \/ Crash(ns2, pn, pt1, TRUE)

\* case ',': q = stack[top-1].  A slot that was never written holds the
\* address of no node, or reading through it kills the process.
CaseComma(ns1, p1, pt1) ==
    LET slot == top - 1
        Do(q, ob) ==
            IF p1 = 0 THEN Crash(ns1, p1, pt1, ob)
            ELSE Goto("parse", pt1 + 1, stack, top, p1, dcap, count,
                      Link(ns1, q, "left", p1, dcap), Ances, ob)
    IN  IF slot \in DOMAIN stack THEN Do(stack[slot], oob)
        ELSE Do(WILD, TRUE) \/ Crash(ns1, p1, pt1, TRUE)

\* case ')': q = stack[--top].
CaseClose(ns1, p1, pt1) ==
    LET slot == top - 1
        pt2  == pt1 + 1
        at   == CharAt(pt2) = "@"
        pt3  == IF at THEN pt2 + 1 ELSE pt2
        e2   == NextSep(pt3)
        unnamed == e2 = pt3
        nm   == IF unnamed THEN GeneratedName(count + 1) ELSE SubSeq(treeString, pt3, e2 - 1)
        Do(q, ob) ==
            IF p1 = 0 \/ e2 = 0 THEN Crash(ns1, p1, pt1, ob)
            ELSE Goto("parse", e2, stack, top - 1, q, dcap,
                      IF unnamed THEN count + 1 ELSE count,
                      SetName(Link(ns1, q, "right", p1, dcap), q, nm),
                      IF at THEN q ELSE Ances, ob)
    IN  IF slot \in DOMAIN stack THEN Do(stack[slot], oob)
        ELSE Do(WILD, TRUE) \/ Crash(ns1, p1, pt1, TRUE)

\* One pass of the loop  while (*pt != '\0' && *pt != ';'): a name, when one
\* starts at pt, and the separator after it.
ParseStep ==
    /\ pc = "parse"
    /\ CharAt(pt) \notin {"NUL", ";"}
    /\ LET named == ~isSepSymbol(CharAt(pt))
           e     == NextSep(pt)
           ns1   == IF named /\ e # 0
                    THEN Append(nodes, [allocTreeNode EXCEPT
                                           !.name = SubSeq(treeString, pt, e - 1)])
                    ELSE nodes
           p1    == IF named THEN Len(ns1) ELSE p
           pt1   == IF named THEN e ELSE pt
       IN  IF named /\ e = 0 THEN Crash(nodes, p, pt, oob)
           ELSE CASE treeString[pt1] = ":" -> CaseColon(ns1, p1, pt1)
                  [] treeString[pt1] = "(" -> CaseOpen(ns1, p1, pt1)
                  [] treeString[pt1] = "," -> CaseComma(ns1, p1, pt1)
                  [] treeString[pt1] = ")" -> CaseClose(ns1, p1, pt1)
                  [] OTHER -> Goto("parse", pt1, stack, top, p1, dcap, count, ns1, Ances, oob)

\* readTreeString after its loop (lines 211-216), and the assignment of the
\* result to Phylo in main.
ParseEnd ==
    /\ pc = "parse"
    /\ CharAt(pt) \in {"NUL", ";"}
    /\ LET an == IF Ances = 0 THEN p ELSE Ances
       IN  IF top # 0
           THEN Goto("errAbort", pt, stack, top, p, dcap, count, nodes, an, oob)
           ELSE IF p = WILD THEN Crash(nodes, p, pt, oob)
           ELSE /\ pc' = "outgroup"
                /\ Phylo' = p
                /\ Ances' = an
                /\ UNCHANGED <<treeString, pt, stack, top, p, dcap, count, nodes, oob,
                               pre_reroot, written, dvars, foldvars, probvars>>

isLeaf(ns, n) == ns[n].left = 0 /\ ns[n].right = 0

\* The list threaded through next by adjustNextInTree: the node, then its
\* left subtree, then its right subtree.
RECURSIVE adjustTreeList(_, _)
adjustTreeList(ns, n) ==
    IF n \notin 1..Len(ns) THEN <<>>
    ELSE <<n>> \o adjustTreeList(ns, ns[n].left) \o adjustTreeList(ns, ns[n].right)

TreeNodes(ns, root) == {adjustTreeList(ns, root)[k] : k \in 1..Len(adjustTreeList(ns, root))}

\* The walk of identifyOutgroup with one step up at most.
ReachesAncesInOneStep(ns, tt, an) ==
    IF tt = 0 THEN FALSE
    ELSE tt = an \/ (ns[tt].parent # 0 /\ ns[tt].parent = an)

\* for (tt = tr; tt; tt = tt->parent) if (tt == Ances) break;
RECURSIVE ReachesAnces(_, _, _)
ReachesAnces(ns, tt, an) ==
    IF tt = 0 THEN FALSE
    ELSE IF tt = an THEN TRUE
    ELSE ReachesAnces(ns, ns[tt].parent, an)

\* identifyOutgroup(Phylo), and the test  if (Ances != Phylo)  of main.
IdentifyOutgroup ==
    /\ pc = "outgroup"
    /\ nodes' = [n \in 1..Len(nodes) |->
                    IF n \in TreeNodes(nodes, Phylo) /\ isLeaf(nodes, n)
                    THEN [nodes[n] EXCEPT !.outgroup = ~ReachesAnces(nodes, n, Ances)]
                    ELSE nodes[n]]
    /\ pc' = IF Ances # Phylo THEN "reroot" ELSE "tree_done"
    /\ UNCHANGED <<treeString, pt, stack, top, p, dcap, count, Ances, Phylo, oob,
                   pre_reroot, written, dvars, foldvars, probvars>>

\* modifyBranchLen with the assignment before the recursive call.
RECURSIVE modifyBranchLenBottomUp(_, _, _)
modifyBranchLenBottomUp(ns, node, child) ==
    IF node = 0 THEN ns
    ELSE modifyBranchLenBottomUp([ns EXCEPT ![node].distalpha = ns[child].distalpha],
                                 ns[node].parent, node)

RECURSIVE modifyBranchLen(_, _, _)
modifyBranchLen(ns, node, child) ==
    IF node = 0 THEN ns
    ELSE LET up == modifyBranchLen(ns, ns[node].parent, node)
         IN  [up EXCEPT ![node].distalpha = up[child].distalpha]

\* The while loop of rerootTree.
RECURSIVE rerootLoop(_, _, _)
rerootLoop(ns, v, pp) ==
    IF pp = 0 THEN ns
    ELSE LET cut == IF v = ns[pp].right THEN [ns EXCEPT ![pp].right = 0]
                    ELSE [ns EXCEPT ![pp].left = 0]
             put == IF cut[v].right = 0 THEN [cut EXCEPT ![v].right = pp]
                    ELSE [cut EXCEPT ![v].left = pp]
             g   == put[pp].parent
         IN  rerootLoop([put EXCEPT ![pp].parent = v], pp, g)

rerootTree(ns, node) == [rerootLoop(ns, node, ns[node].parent) EXCEPT ![node].parent = 0]

\* modifyTree: the nodes after it; the new root is the node added last.
modifyTree(ns, an) ==
    LET anc == Len(ns) + 1
        n0  == Append(ns, [allocTreeNode EXCEPT !.name = <<"NEWROOT">>])
        n1  == modifyBranchLen(n0, n0[an].parent, an)
        n2  == [n1 EXCEPT ![an].distalpha = 0]
        nr  == n2[an].parent
        n3  == IF an = n2[nr].right
               THEN [n2 EXCEPT ![anc].left = 0, ![anc].right = an, ![an].parent = anc,
                               ![nr].right = 0]
               ELSE [n2 EXCEPT ![anc].right = 0, ![anc].left = an, ![an].parent = anc,
                               ![nr].left = 0]
        n4  == rerootTree(n3, nr)
    IN  IF n4[anc].left = 0 THEN [n4 EXCEPT ![anc].left = nr]
        ELSE [n4 EXCEPT ![anc].right = nr]

\* if (Ances != Phylo) modifyTree();
ModifyTree ==
    /\ pc = "reroot"
    /\ pre_reroot' = <<nodes, Phylo, Ances>>
    /\ nodes' = modifyTree(nodes, Ances)
    /\ Ances' = Len(nodes) + 1
    /\ Phylo' = Len(nodes) + 1
    /\ pc' = "tree_done"
    /\ UNCHANGED <<treeString, pt, stack, top, p, dcap, count, oob, written, dvars,
                   foldvars, probvars>>

(* ------------------------------ tree files ---------------------------- *)
Letters == <<"a", "b", "c", "d", "e", "f">>

RECURSIVE Decimal(_)
Decimal(n) == IF n < 10 THEN <<Digits[n + 1]>>
              ELSE Decimal(n \div 10) \o <<Digits[(n % 10) + 1]>>

\* The branch length above the subtree of the leaves lo..hi: a different
\* positive number for every subtree.
SpanLen(lo, hi) == lo + MaxLeaves * (hi - lo)

\* The texts of the binary trees over the leaves lo..hi of a tree of n
\* leaves, '@' after the subtree mark; lens says which subtrees have their
\* branch length written: "all", "none", or "some" (every other one).
RECURSIVE Newick(_, _, _, _, _)
Newick(lo, hi, n, mark, lens) ==
    LET tail == (IF mark = <<lo, hi>> THEN <<"@">> ELSE <<>>)
                \o (IF <<lo, hi>> # <<1, n>>
                       /\ (lens = "all" \/ (lens = "some" /\ SpanLen(lo, hi) % 2 = 1))
                    THEN <<":">> \o Decimal(SpanLen(lo, hi)) ELSE <<>>)
    IN  IF lo = hi THEN {<<Letters[lo]>> \o tail}
        ELSE UNION {{<<"(">> \o l \o <<",">> \o r \o <<")">> \o tail :
                        l \in Newick(lo, m, n, mark, lens),
                        r \in Newick(m + 1, hi, n, mark, lens)} :
                    m \in lo..(hi - 1)}

InnerSpans(n) == {<<lo, hi>> : lo \in 1..n, hi \in 1..n} \cap {s \in (1..n) \X (1..n) : s[1] < s[2]}

\* Well-formed tree files of 1..MaxLeaves leaves with at most one '@'.
Balanced(lens) ==
    UNION {UNION {{w \o <<";">> : w \in Newick(1, n, n, mark, lens)} :
                  mark \in InnerSpans(n) \cup {<<0, 0>>}} :
           n \in 1..MaxLeaves}

\* A well-formed file with one parenthesis left out or one put in.
OneParenOff(w) ==
    {SubSeq(w, 1, k - 1) \o SubSeq(w, k + 1, Len(w)) :
        k \in {x \in 1..Len(w) : w[x] \in {"(", ")"}}}
    \cup {SubSeq(w, 1, k - 1) \o <<c>> \o SubSeq(w, k, Len(w)) :
             k \in 1..Len(w), c \in {"(", ")"}}

TreeStrings ==
    Balanced("all") \cup Balanced("none") \cup Balanced("some")
    \cup UNION {OneParenOff(w) : w \in Balanced("all")}

TreeInit ==
    /\ DeschIdle
    /\ FoldIdle
    /\ ProbIdle
    /\ treeString \in TreeStrings
    /\ pt = 1
    /\ stack = EmptyMap
    /\ top = 0
    /\ p = 0
    /\ dcap = 0
    /\ count = 0
    /\ nodes = <<>>
    /\ Ances = 0
    /\ Phylo = 0
    /\ oob = FALSE
    /\ pre_reroot = <<>>
    /\ written = EmptyMap
    /\ pc = "parse"

TreeNext == ParseStep \/ ParseEnd \/ IdentifyOutgroup \/ ModifyTree

TreeSpec == TreeInit /\ [][TreeNext]_vars

(* -------------------------- compatibility sets ------------------------ *)
\* argv[1], the reference species.
refspc == <<"a">>

\* A branch length at which exp(-(2T-1) * distalpha) is 0 in a double.
Long == 1000

\* Set(H, i, j, YES): the position of the bit it sets.  There is no test of
\* i and j against N.
Set(i, j) ==
    LET i1 == IF i < 0 THEN map(-i) ELSE i
        j1 == IF j < 0 THEN map(-j) ELSE j
        j2 == IF j1 = A THEN Z ELSE j1
    IN  i1 * N + j2

\* Val(H, i, j) == YES
Val(H, i, j) == (i * N + j) \in H

\* updatePS(b, i, j): the indices of b->there it marks.
updatePS(i, j) ==
    LET j1 == IF j < 0 THEN map(-j) ELSE j
        i1 == IF i < 0 THEN map(-i) ELSE i
    IN  IF i1 = A THEN {j1}
        ELSE IF j1 = Z THEN {map(i1)}
        ELSE {j1, map(i1)}

\* The bits initSets sets for an element that starts a chromosome, for two
\* elements in a row and for an element that ends a chromosome.
HeadBits(e) == {Set(A, e), Set(-e, Z)}
PairBits(e1, e2) == {Set(e1, e2), Set(-e2, -e1)}
TailBits(e) == {Set(e, Z), Set(A, -e)}

\* Lines 525-542 for one chromosome.
ChromBits(ch) ==
    HeadBits(ch[1])
    \cup UNION {PairBits(ch[k - 1], ch[k]) : k \in 2..Len(ch)}
    \cup TailBits(ch[Len(ch)])

ChromThere(ch) ==
    updatePS(A, ch[1])
    \cup UNION {updatePS(ch[k - 1], ch[k]) : k \in 2..Len(ch)}
    \cup updatePS(ch[Len(ch)], Z)

\* Lines 559-577 for one line  x y  of a joins file.
HintBits(h) ==
    IF h[1] = 0 /\ h[2] # 0 THEN HeadBits(h[2])
    ELSE IF h[1] # 0 /\ h[2] = 0 THEN TailBits(h[1])
    ELSE IF h[1] # 0 /\ h[2] # 0 THEN PairBits(h[1], h[2])
    ELSE {}

HintThere(h) ==
    IF h[1] = 0 /\ h[2] # 0 THEN updatePS(A, h[2])
    ELSE IF h[1] # 0 /\ h[2] = 0 THEN updatePS(h[1], Z)
    ELSE IF h[1] # 0 /\ h[2] # 0 THEN updatePS(h[1], h[2])
    ELSE {}

\* static struct nodeList *Leaf, as initLeafList builds it.
Leaf == SelectSeq(adjustTreeList(nodes, Phylo), LAMBDA n : isLeaf(nodes, n))

LeafSet == {Leaf[k] : k \in 1..Len(Leaf)}

\* b->P and b->there of a leaf after initSets.
LeafBits(b) ==
    IF ~nodes[b].outgroup
    THEN UNION {ChromBits(genome[b][c]) : c \in 1..Len(genome[b])}
    ELSE UNION {HintBits(joins[b][k]) : k \in 1..Len(joins[b])}

LeafThere(b) ==
    IF ~nodes[b].outgroup
    THEN UNION {ChromThere(genome[b][c]) : c \in 1..Len(genome[b])}
    ELSE UNION {HintThere(joins[b][k]) : k \in 1..Len(joins[b])}

RECURSIVE SumLen(_)
SumLen(g) == IF g = <<>> THEN 0 ELSE Len(Head(g)) + SumLen(Tail(g))

\* calculateTotalEle(refspc, Phylo)
calculateTotalEle ==
    LET list == adjustTreeList(nodes, Phylo)
        at   == {k \in 1..Len(list) :
                    list[k] \in DOMAIN genome /\ nodes[list[k]].name = refspc}
    IN  IF at = {} THEN 0
        ELSE SumLen(genome[list[CHOOSE k \in at : \A m \in at : k <= m]])

\* T = calculateTotalEle(argv[1], Phylo);
CalculateTotalEle ==
    /\ pc = "total"
    /\ T' = calculateTotalEle
    /\ pc' = "alloc"
    /\ UNCHANGED <<dvars, Z, N, fold_i, fold_calls, treevars, probvars>>

\* initSets, lines 500-515: the sizes and the zeroed arrays.
AllocSets ==
    /\ pc = "alloc"
    /\ Z' = 2 * T + 1
    /\ N' = Z' + 1
    /\ leafP' = [b \in LeafSet |-> {}]
    /\ there' = [b \in LeafSet |-> {}]
    /\ pc' = "sets"
    /\ UNCHANGED <<dvars, T, fold_i, fold_calls, treevars, genome, joins, DPPI, PLH, SLH,
                   PPP, SPP, lp_cache, ll_cache, computed, hits, cur, table>>

\* initSets, lines 517-582: the ingroup leaves from their genomes, the
\* outgroup leaves from their joins files.
InitSets ==
    /\ pc = "sets"
    /\ leafP' = [b \in LeafSet |-> LeafBits(b)]
    /\ there' = [b \in LeafSet |-> LeafThere(b)]
    /\ DPPI' = UNION {LeafBits(b) : b \in LeafSet}
    /\ cur' = <<A + 1, A>>
    /\ pc' = "pred"
    /\ UNCHANGED <<dvars, foldvars, treevars, genome, joins, PLH, SLH, PPP, SPP,
                   lp_cache, ll_cache, computed, hits, table>>

(* ------------------------------ likelihoods --------------------------- *)
\* prob(son, i, s) times 2T-1, for a branch of length 0 (exp(...) = 1) and
\* for a branch of length Long or more (exp(...) = 0).
prob(son, i, s) ==
    IF nodes[son].distalpha = 0
    THEN (IF i = s THEN 2 * T - 1 ELSE 0)
    ELSE 1

\* The caches and the histories, threaded through the calls.
Caches == [lp |-> lp_cache, ll |-> ll_cache, computed |-> computed, hits |-> hits]

Bump(f, k) == IF k \in DOMAIN f THEN [f EXCEPT ![k] = @ + 1] ELSE Put(f, k, 1)

\* getLP with no HASH_FIND: the value is computed and stored at every call.
getLPNoFind(st, node, i, j) ==
    LET k == <<node, i, j>>
        v == prob(node, i, j)
    IN  [st  |-> [st EXCEPT !.lp = Put(@, k, v), !.computed = Bump(@, <<"prob">> \o k)],
         val |-> v]

getLP(st, node, i, j) ==
    LET k == <<node, i, j>>
        v == prob(node, i, j)
    IN  IF k \in DOMAIN st.lp
        THEN [st |-> [st EXCEPT !.hits = @ \cup {<<"lp", k, st.lp[k]>>}], val |-> st.lp[k]]
        ELSE [st  |-> [st EXCEPT !.lp = Put(@, k, v), !.computed = Bump(@, <<"prob">> \o k)],
              val |-> v]

\* findTreeNode with no comparison of names: the head of the list.
findTreeNodeHead(name) == Leaf[1]

\* findTreeNode(name)
findTreeNode(name) ==
    Leaf[CHOOSE k \in 1..Len(Leaf) :
            /\ nodes[Leaf[k]].name = name
            /\ \A m \in 1..(k - 1) : nodes[Leaf[m]].name # name]

RECURSIVE getLL(_, _, _, _)
RECURSIVE preLikelihood(_, _, _, _)
RECURSIVE SumOverS(_, _, _, _, _, _)

\* for (s = A; s < Z; s++) if (Val(DPPI, s, j) == YES)
\*     side += getLP(child, i, s) * getLL(child, s, j);
SumOverS(st, child, i, j, s, acc) ==
    IF s >= Z THEN [st |-> st, val |-> acc]
    ELSE IF Val(DPPI, s, j)
    THEN LET a == getLP(st, child, i, s)
             b == getLL(a.st, child, s, j)
         IN  SumOverS(b.st, child, i, j, s + 1, acc + a.val * b.val)
    ELSE SumOverS(st, child, i, j, s + 1, acc)

\* preLikelihood with the left child alone: right is taken as 1.
preLikelihoodLeftOnly(st, anc, i, j) ==
    LET st0 == [st EXCEPT !.computed = Bump(@, <<"pre", anc, i, j>>)]
        lf  == findTreeNode(nodes[anc].name)
        l   == IF nodes[anc].left = 0 THEN [st |-> st0, val |-> 1]
               ELSE SumOverS(st0, nodes[anc].left, i, j, A, 0)
    IN  IF isLeaf(nodes, anc)
        THEN [st  |-> st0,
              val |-> IF j \in there[lf] THEN (IF Val(leafP[lf], i, j) THEN 1 ELSE 0) ELSE 1]
        ELSE [st |-> l.st, val |-> l.val]

\* preLikelihood(anc, i, j): left * right, in units that depend on anc only.
preLikelihood(st, anc, i, j) ==
    LET st0 == [st EXCEPT !.computed = Bump(@, <<"pre", anc, i, j>>)]
        lf  == findTreeNode(nodes[anc].name)
        l   == IF nodes[anc].left = 0 THEN [st |-> st0, val |-> 1]
               ELSE SumOverS(st0, nodes[anc].left, i, j, A, 0)
        r   == IF nodes[anc].right = 0 THEN [st |-> l.st, val |-> 1]
               ELSE SumOverS(l.st, nodes[anc].right, i, j, A, 0)
    IN  IF isLeaf(nodes, anc)
        THEN [st  |-> st0,
              val |-> IF j \in there[lf] THEN (IF Val(leafP[lf], i, j) THEN 1 ELSE 0) ELSE 1]
        ELSE [st |-> r.st, val |-> l.val * r.val]

getLL(st, node, i, j) ==
    LET k == <<node, i, j>>
        c == preLikelihood(st, node, i, j)
    IN  IF k \in DOMAIN st.ll
        THEN [st |-> [st EXCEPT !.hits = @ \cup {<<"ll", k, st.ll[k]>>}], val |-> st.ll[k]]
        ELSE [st |-> [c.st EXCEPT !.ll = Put(@, k, c.val)], val |-> c.val]

\* PVal(H, i, j) and SVal(H, i, j): 0 for an entry that was never made.
PVal(H, i, j) == IF <<i, j>> \in DOMAIN H THEN H[<<i, j>>] ELSE 0

\* PSet(H, i, j, value) and SSet(H, i, j, value)
PSet(H, i, j, value) ==
    LET i1 == IF i < 0 THEN map(-i) ELSE i
        j1 == IF j < 0 THEN map(-j) ELSE j
        j2 == IF j1 = A THEN Z ELSE j1
    IN  Put(H, <<i1, j2>>, value)

\* The pairs <<j, i>> the loops of getPredecessor have still to visit and
\* do not skip, from <<j, i>> = c on.
PairsFrom(c) ==
    {q \in ((A + 1)..(Z - 1)) \X (A..(Z - 1)) :
        /\ Val(DPPI, q[2], q[1])
        /\ (q[1] > c[1] \/ (q[1] = c[1] /\ q[2] >= c[2]))}

FirstPair(S) ==
    CHOOSE q \in S : \A r \in S : q[1] < r[1] \/ (q[1] = r[1] /\ q[2] <= r[2])

\* getPredecessor: the loops up to and with the next pair that is not
\* skipped, or to their end.
GetPredecessor ==
    /\ pc = "pred"
    /\ IF PairsFrom(cur) = {}
       THEN /\ pc' = "succ"
            /\ UNCHANGED <<PLH, lp_cache, ll_cache, computed, hits, cur>>
       ELSE LET q == FirstPair(PairsFrom(cur))
                c == preLikelihood(Caches, Ances, q[2], q[1])
            IN  /\ PLH' = PSet(PLH, q[2], q[1], c.val)
                /\ lp_cache' = c.st.lp
                /\ ll_cache' = c.st.ll
                /\ computed' = c.st.computed
                /\ hits' = c.st.hits
                /\ cur' = <<q[1], q[2] + 1>>
                /\ pc' = "pred"
    /\ UNCHANGED <<dvars, foldvars, treevars, genome, joins, leafP, there, DPPI, SLH, PPP,
                   SPP, table>>

\* The list H+j of a matrix: the array element (x = 0) and the entries
\* hung on it, as the x they carry.
Column(H, j) == Ascending({0} \cup {k[1] : k \in {q \in DOMAIN H : q[2] = j}})
Row(H, i) == Ascending({0} \cup {k[2] : k \in {q \in DOMAIN H : q[1] = i}})

\* A sequence of calls <<i, j, value, made>> of PSet or SSet, made in order.
RECURSIVE SetAll(_, _)
SetAll(H, ws) ==
    IF ws = <<>> THEN H
    ELSE SetAll(PSet(H, Head(ws)[1], Head(ws)[2], Head(ws)[3]), Tail(ws))

\* The calls of a loop that the test in its body lets through.
Keep(ws) == SelectSeq(ws, LAMBDA w : w[4])

\* getSuccessor with its first loop alone (lines 774-779).
getSuccessorEndsOnly ==
    LET ends == [k \in 1..(Z + 1) |->
                    IF PVal(PLH, A, map(k - 1)) > 0
                    THEN <<k - 1, Z, PVal(PLH, A, map(k - 1)), TRUE>>
                    ELSE <<k - 1, Z, 0, FALSE>>]
    IN  SetAll(SLH, Keep(ends))

\* getSuccessor
getSuccessor ==
    LET ends == [k \in 1..(Z + 1) |->
                    IF PVal(PLH, A, map(k - 1)) > 0
                    THEN <<k - 1, Z, PVal(PLH, A, map(k - 1)), TRUE>>
                    ELSE <<k - 1, Z, 0, FALSE>>]
        cols == [i \in 1..(Z - 1) |->
                    [k \in 1..Len(Column(PLH, i)) |->
                        IF PVal(PLH, Column(PLH, i)[k], i) > 0
                        THEN <<map(i), map(Column(PLH, i)[k]),
                               PVal(PLH, Column(PLH, i)[k], i), TRUE>>
                        ELSE <<map(i), 0, 0, FALSE>>]]
    IN  SetAll(SLH, Keep(ends) \o Keep(Flatten(cols, 1)))

GetSuccessor ==
    /\ pc = "succ"
    /\ SLH' = getSuccessor
    /\ pc' = "norm"
    /\ UNCHANGED <<dvars, foldvars, treevars, genome, joins, leafP, there, DPPI, PLH, PPP,
                   SPP, lp_cache, ll_cache, computed, hits, cur, table>>

RECURSIVE SumSeq(_)
SumSeq(s) == IF s = <<>> THEN 0 ELSE Head(s) + SumSeq(Tail(s))

\* The value of an entry of PPP or SPP that was never made: 0.
Zero == <<0, 1>>
Frac(H, i, j) == IF <<i, j>> \in DOMAIN H THEN H[<<i, j>>] ELSE Zero

\* normalize: the quotient val/psum is kept as <<val, psum>>; <<0, 0>> is
\* the quotient 0/0.
normalizeP ==
    LET cols == [i \in 1..(Z - 1) |->
                    LET psum == SumSeq([k \in 1..Len(Column(PLH, i)) |->
                                            PVal(PLH, Column(PLH, i)[k], i)])
                    IN  [k \in 1..Len(Column(PLH, i)) |->
                            <<Column(PLH, i)[k], i, <<PVal(PLH, Column(PLH, i)[k], i), psum>>,
                              TRUE>>]]
    IN  SetAll(PPP, Flatten(cols, 1))

normalizeS ==
    LET rows == [i \in 1..(Z - 1) |->
                    LET ssum == SumSeq([k \in 1..Len(Row(SLH, i)) |->
                                            PVal(SLH, i, Row(SLH, i)[k])])
                    IN  [k \in 1..Len(Row(SLH, i)) |->
                            <<i, Row(SLH, i)[k], <<PVal(SLH, i, Row(SLH, i)[k]), ssum>>, TRUE>>]]
        spp1 == SetAll(SPP, Flatten(rows, 1))
        heads == [i \in 1..(Z - 1) |->
                    <<A, i, Frac(normalizeP, A, i), Val(DPPI, A, i)>>]
    IN  SetAll(spp1, Keep(heads))

normalizeEnds ==
    LET tails == [i \in 1..(Z - 1) |->
                    <<i, Z, Frac(normalizeS, i, Z), Val(DPPI, i, Z)>>]
    IN  SetAll(normalizeP, Keep(tails))

Normalize ==
    /\ pc = "norm"
    /\ PPP' = normalizeEnds
    /\ SPP' = normalizeS
    /\ pc' = "post"
    /\ UNCHANGED <<dvars, foldvars, treevars, genome, joins, leafP, there, DPPI, PLH, SLH,
                   lp_cache, ll_cache, computed, hits, cur, table>>

\* if (pam(i) == 0 || pam(j) == 0) continue;  the test of the first pair of
\* loops of calculatePostProb.
EitherSentinel(i, j) == pam(i) = 0 \/ pam(j) = 0

\* if (pam(i) == 0 && pam(j) == 0) continue;
BothSentinel(i, j) == pam(i) = 0 /\ pam(j) = 0

\* The second pair of loops of calculatePostProb: the lines  pam(i) pam(j)
\* pprob, pprob the product of two quotients.
calculatePostProb ==
    LET cell(k) == <<(k - 1) \div N, (k - 1) % N>>
        line(i, j) == [i |-> i, j |-> j, a |-> pam(i), b |-> pam(j),
                       num |-> Frac(PPP, i, j)[1] * Frac(SPP, i, j)[1],
                       den |-> Frac(PPP, i, j)[2] * Frac(SPP, i, j)[2]]
        all == [k \in 1..(N * N) |-> line(cell(k)[1], cell(k)[2])]
    IN  SelectSeq(all, LAMBDA l : ~BothSentinel(l.i, l.j) /\ Val(DPPI, l.i, l.j))

CalculatePostProb ==
    /\ pc = "post"
    /\ table' = calculatePostProb
    /\ pc' = "prob_done"
    /\ UNCHANGED <<dvars, foldvars, treevars, genome, joins, leafP, there, DPPI, PLH, SLH,
                   PPP, SPP, lp_cache, ll_cache, computed, hits, cur>>

(* ------------------------- trees and genome files --------------------- *)
LeafNode(nm, par, d, og) ==
    [allocTreeNode EXCEPT !.name = nm, !.parent = par, !.distalpha = d, !.outgroup = og]

InnerNode(k, par, l, r, d) ==
    [allocTreeNode EXCEPT !.name = GeneratedName(k), !.parent = par, !.left = l,
                          !.right = r, !.distalpha = d]

\* The nodes of "(a:da,b:db);" as readTreeString allocates them.
Cherry(da, db) ==
    <<InnerNode(1, 0, 2, 3, 0), LeafNode(<<"a">>, 1, da, FALSE), LeafNode(<<"b">>, 1, db, FALSE)>>

\* The nodes of "((a:da,b:db):di,c:dc);"; with og the text has '@' after the
\* inner pair and c is flagged as outgroup.
Triple(da, db, di, dc, og) ==
    <<InnerNode(2, 0, 2, 5, 0), InnerNode(1, 1, 3, 4, di), LeafNode(<<"a">>, 2, da, FALSE),
      LeafNode(<<"b">>, 2, db, FALSE), LeafNode(<<"c">>, 1, dc, og)>>

Lengths == {0, Long}

\* One chromosome of 1..len elements out of 1..maxe, each at most once, in
\* either orientation.
Chromosomes(maxe, len) ==
    LET ids == (1..maxe) \cup {-e : e \in 1..maxe}
    IN  {<<e>> : e \in ids}
        \cup (IF len >= 2 THEN {<<e, f>> : e \in ids, f \in ids} \cap
                               {s \in ids \X ids : s[1] # s[2] /\ s[1] # -s[2]}
              ELSE {})

\* The chromosome of the reference species.
Reference == {<<1>>, <<1, 2>>, <<2, -1>>}

\* The lines a joins file is made of.
Hints == {<<0, 1>>, <<1, 0>>, <<1, 2>>, <<2, -1>>, <<-2, 1>>, <<1, MaxEle>>, <<0, 0>>}

ProbStart(ns, root, g, jn) ==
    /\ nodes = ns
    /\ Phylo = root
    /\ Ances = root
    /\ genome = g
    /\ joins = jn

ProbInit ==
    /\ DeschIdle
    /\ fold_i = 0 /\ fold_calls = <<>>
    /\ T = 0 /\ Z = 0 /\ N = 0
    /\ treeString = <<>> /\ pt = 1 /\ stack = EmptyMap /\ top = 0 /\ p = 0 /\ dcap = 0
    /\ count = 0 /\ oob = FALSE /\ pre_reroot = <<>> /\ written = EmptyMap
    /\ leafP = EmptyMap /\ there = EmptyMap /\ DPPI = {}
    /\ PLH = EmptyMap /\ SLH = EmptyMap /\ PPP = EmptyMap /\ SPP = EmptyMap
    /\ lp_cache = EmptyMap /\ ll_cache = EmptyMap /\ computed = EmptyMap /\ hits = {}
    /\ cur = <<0, 0>> /\ table = <<>>
    /\ pc = "total"
    /\ \/ \E da \in Lengths, db \in Lengths :
          \E ga \in Reference, gb \in Chromosomes(MaxEle, MaxGenome) :
             ProbStart(Cherry(da, db), 1, Put(Put(EmptyMap, 2, <<ga>>), 3, <<gb>>), EmptyMap)
       \/ \E da \in Lengths, db \in Lengths, di \in Lengths, dc \in Lengths :
          \E gb \in Chromosomes(2, 2), gc \in Chromosomes(2, 2) :
             /\ Len(gb) = 2 /\ Len(gc) = 2 /\ gc[1] > 0
             /\ ProbStart(Triple(da, db, di, dc, FALSE), 1,
                          Put(Put(Put(EmptyMap, 3, <<<<1, 2>>>>), 4, <<gb>>), 5, <<gc>>),
                          EmptyMap)
       \/ \E da \in Lengths, db \in Lengths, di \in Lengths, dc \in Lengths :
          \E gb \in Chromosomes(2, 2), h \in Hints :
             /\ Len(gb) = 2 /\ gb[1] > 0
             /\ ProbStart(modifyTree(Triple(da, db, di, dc, TRUE), 2), 6,
                          Put(Put(EmptyMap, 3, <<<<1, 2>>>>), 4, <<gb>>),
                          Put(EmptyMap, 5, <<h>>))

ProbNext ==
    \/ CalculateTotalEle
    \/ AllocSets
    \/ InitSets
    \/ GetPredecessor
    \/ GetSuccessor
    \/ Normalize
    \/ CalculatePostProb

ProbSpec == ProbInit /\ [][ProbNext]_vars

(* ---------------------------------------------------------------------- *)
(* Properties                                                             *)
(* ---------------------------------------------------------------------- *)
ChainIds == DOMAIN mapClasses

\* The places of the edges held by the chains: <<chain id, position>>.
EdgeSlots == UNION {{<<c, k>> : k \in 1..Len(mapClasses[c])} : c \in ChainIds}

EdgeAt(s) == mapClasses[s[1]][s[2]]

\* A block read forwards runs from its head to its tail.  The edge
\* b1 -> b2 leaves b1 at its tail when b1 is read forwards, at its head when
\* it is read backwards, and enters b2 at the opposite kind of end.
End1(b, d) == <<b, IF d = 1 THEN "tail" ELSE "head">>
End2(b, d) == <<b, IF d = 1 THEN "head" ELSE "tail">>

EndsOf(e) == (IF e.bid1 # 0 THEN {End1(e.bid1, e.dir1)} ELSE {})
             \cup (IF e.bid2 # 0 THEN {End2(e.bid2, e.dir2)} ELSE {})

\* The ends used by a line  a  b  weight  of the join file.
EndsOfJoin(ln) ==
    (IF ln[1] # 0 THEN {End1(Abs(ln[1]), IF ln[1] > 0 THEN 1 ELSE -1)} ELSE {})
    \cup (IF ln[2] # 0 THEN {End2(Abs(ln[2]), IF ln[2] > 0 THEN 1 ELSE -1)} ELSE {})

\* The entry holding the other reading of the same adjacency.
Twin(k) == Edge(k.bid2, -k.dir2, k.bid1, -k.dir1)

\* Some chain holds the adjacency of entry k, in either reading.
Held(k) == \E s \in EdgeSlots : Key(EdgeAt(s)) = k \/ Key(EdgeAt(s)) = Twin(k)

WithOutcome(r) == {k \in DOMAIN outcome : outcome[k] = r}

\* C1: at every point of the pass no two edges of the chains, of one chain or
\* of two, use the same non-sentinel element-end, and neither do two lines of
\* the join file written at the end.
C1_EndsUsedOnce ==
    /\ \A s, t \in EdgeSlots : s # t => EndsOf(EdgeAt(s)) \cap EndsOf(EdgeAt(t)) = {}
    /\ \A s \in EdgeSlots :
          LET e == EdgeAt(s)
          IN  e.bid1 # 0 /\ e.bid2 # 0 => End1(e.bid1, e.dir1) # End2(e.bid2, e.dir2)
    /\ \A i, j \in 1..Len(out_join) :
          i # j => EndsOfJoin(out_join[i]) \cap EndsOfJoin(out_join[j]) = {}

\* An edge was turned away because one of its ends was taken by another
\* adjacency, with several edges in the chains and in the output.
C1_Witness ==
    /\ pc = "done"
    /\ Len(out_join) >= 2
    /\ \E k \in WithOutcome("USED") : ~Held(k)

\* The blocks of a chain in order: the first end of the first edge, then the
\* second end of every edge.
BlocksOf(le) == [k \in 1..(Len(le) + 1) |-> IF k = 1 THEN le[1].bid1 ELSE le[k - 1].bid2]

NoRepeat(b) == \A i, j \in 1..Len(b) : i < j /\ b[i] # 0 => b[i] # b[j]

\* C2: no chain closes into a cycle: in every chain no non-sentinel block
\* occurs twice, neither among the blocks in chain order (whose first and
\* last are the two open ends) nor among the first ends of its edges.
C2_NoCycle ==
    \A c \in ChainIds :
        /\ NoRepeat(BlocksOf(mapClasses[c]))
        /\ NoRepeat([k \in 1..Len(mapClasses[c]) |-> mapClasses[c][k].bid1])

\* An edge that would have closed a chain of several edges was met.
C2_Witness ==
    /\ WithOutcome(CYCLE) # {}
    /\ \E c \in ChainIds : Len(mapClasses[c]) >= 2

\* C3: block 0 occurs in a chain only as the first end of the first edge or
\* as the second end of the last edge: no two edges are joined at the sentinel.
C3_NoSentinelJoin ==
    \A c \in ChainIds :
        \A k \in 1..Len(mapClasses[c]) :
            /\ k > 1 => mapClasses[c][k].bid1 # 0
            /\ k < Len(mapClasses[c]) => mapClasses[c][k].bid2 # 0

\* The two entries a line of the file is read into.
Fwd(ln) == Edge(Abs(ln.b1), IF ln.b1 < 0 THEN -1 ELSE 1, Abs(ln.b2), IF ln.b2 < 0 THEN -1 ELSE 1)
AdjKeys(ln) == {Fwd(ln), Twin(Fwd(ln))}

\* The first line of the file that names the adjacency of entry k.
FirstLine(k) == CHOOSE i \in 1..Len(input) :
                    /\ k \in AdjKeys(input[i])
                    /\ \A j \in 1..(i - 1) : k \notin AdjKeys(input[j])

\* C4 (as amended): every iteration of the pass visits an entry whose weight
\* is at least the weight of every entry still to be visited.
C4_WeightOrder ==
    [][\A q \in vecEdges : q \notin vecEdges' => \A o \in vecEdges' : o.second <= q.second]_vars

\* C4 (as stated): ... and among entries of equal weight the one that appears
\* first in the input is visited first.
C4_TiesInInputOrder ==
    [][\A q \in vecEdges : q \notin vecEdges' =>
          \A o \in vecEdges' :
              /\ o.second <= q.second
              /\ o.second = q.second => FirstLine(q.first) <= FirstLine(o.first)]_vars

\* An entry has been visited while a lighter one from an earlier line waits.
C4_Witness ==
    /\ pc = "greedy"
    /\ \E k \in DOMAIN outcome : \E o \in vecEdges :
          mapAdjScores[k] > o.second /\ FirstLine(k) > FirstLine(o.first)

\* The entry went past the threshold test of the pass.
TookPart(k) == k \in DOMAIN outcome /\ outcome[k] # "BELOW"

WeightsInChainsOk ==
    \A s \in EdgeSlots :
        /\ EdgeAt(s).weight >= gMIN_WEIGHT
        /\ Key(EdgeAt(s)) \in DOMAIN mapAdjScores
        /\ EdgeAt(s).weight = mapAdjScores[Key(EdgeAt(s))]

\* C5 (as stated): an edge of the table takes part in the pass if and only
\* if its weight is not below the threshold, and no chain ever holds an edge
\* lighter than the threshold.
C5_KeptIffNotBelow ==
    /\ WeightsInChainsOk
    /\ pc = "done" =>
          \A k \in DOMAIN mapAdjScores : TookPart(k) <=> mapAdjScores[k] >= gMIN_WEIGHT

\* C5 (as amended): an edge of the table that joins two different blocks takes
\* part in the pass if and only if its weight is positive and not below the
\* threshold (an edge of weight 0 or from a block to itself is never kept), and
\* no chain ever holds an edge lighter than the threshold.
C5_KeptIffPositiveNotBelow ==
    /\ WeightsInChainsOk
    /\ pc = "done" =>
          \A k \in DOMAIN mapAdjScores :
              TookPart(k) <=> /\ k.bid1 # k.bid2
                              /\ mapAdjScores[k] > 0
                              /\ mapAdjScores[k] >= gMIN_WEIGHT

\* With threshold 0 an edge of weight 0 was dropped, and with a positive
\* threshold an edge of exactly that weight took part.
C5_Witness ==
    /\ pc = "done"
    /\ \/ /\ gMIN_WEIGHT = 0
          /\ \E k \in DOMAIN mapAdjScores :
                k.bid1 # k.bid2 /\ mapAdjScores[k] = 0 /\ ~TookPart(k)
          /\ \E k \in DOMAIN mapAdjScores : TookPart(k)
       \/ /\ gMIN_WEIGHT > 0
          /\ \E k \in DOMAIN mapAdjScores : mapAdjScores[k] = gMIN_WEIGHT /\ TookPart(k)
          /\ Len(out_join) > 0

\* insertEdge returns CYCLE for entry q on the chain at which the scan of
\* the chains stops.
FindsCycle(q) ==
    LET e == EdgeOf(q)
        c == FirstChain(e, mapClasses, mapUsed)
    IN  /\ ~BelowMin(e)
        /\ ~EndInUse(e, mapUsed)
        /\ c # 0
        /\ insertEdge(mapClasses[c], e, mapUsed).res = CYCLE

RegKey(x) == IF x[2] = "tail" THEN -x[1] ELSE x[1]
Registered(e) == \E x \in EndsOf(e) : RegKey(x) \in mapUsed

\* C7: the iteration that visits an edge with a registered non-sentinel end
\* changes no chain and no registry entry, and the adjacency of an edge
\* skipped for that reason is in no chain unless its other reading was
\* accepted.
C7_UsedEndSkipped ==
    /\ [][\A q \in vecEdges : (q \notin vecEdges' /\ Registered(EdgeOf(q))) =>
              /\ mapClasses' = mapClasses
              /\ mapUsed' = mapUsed
              /\ clscnt' = clscnt
              /\ outcome'[q.first] \in {"USED", "BELOW"}]_vars
    /\ [](\A k \in WithOutcome("USED") :
              Twin(k) \notin WithOutcome(SUCCESS) \cup WithOutcome("NEW") => ~Held(k))

\* An edge whose end was taken by another adjacency was skipped while the
\* pass was running.
C7_Witness ==
    /\ pc = "greedy"
    /\ ChainIds # {}
    /\ \E k \in WithOutcome("USED") : ~Held(k) /\ mapAdjScores[k] >= gMIN_WEIGHT

\* The signed block orders a table spells out when line k joins the k-th
\* block to the next, each line in either of its two readings.
RECURSIVE WalksFrom(_, _, _)
WalksFrom(W, t, k) ==
    IF k > Len(t) THEN W
    ELSE WalksFrom({Append(w, t[k].b2) : w \in {v \in W : v[Len(v)] = t[k].b1}}
                   \cup {Append(w, -t[k].b1) : w \in {v \in W : v[Len(v)] = -t[k].b2}},
                   t, k + 1)

Walks(t) ==
    IF Len(t) = 0 THEN {}
    ELSE WalksFrom({<<t[1].b1, t[1].b2>>, <<-t[1].b2, -t[1].b1>>}, t, 2)

DistinctBlocks(w, n) ==
    /\ \A i \in 1..n : w[i] # 0
    /\ \A i, j \in 1..n : i # j => Abs(w[i]) # Abs(w[j])

AboveThreshold(t) == \A k \in 1..Len(t) : t[k].score > gMIN_WEIGHT

\* One simple cycle over distinct non-sentinel blocks, the weights pairwise
\* distinct and above the threshold.
IsCycleTable(t) ==
    /\ Len(t) >= 2
    /\ \E w \in Walks(t) : w[Len(t) + 1] = w[1] /\ DistinctBlocks(w, Len(t))
    /\ \A i, j \in 1..Len(t) : i # j => t[i].score # t[j].score
    /\ AboveThreshold(t)

\* One simple path over distinct non-sentinel blocks, every weight above
\* the threshold.
PathWalks(t) == {w \in Walks(t) : DistinctBlocks(w, Len(t) + 1)}
IsPathTable(t) == PathWalks(t) # {} /\ AboveThreshold(t)

Lightest(t) == CHOOSE m \in 1..Len(t) : \A k \in 1..Len(t) : t[m].score <= t[k].score

\* C8: for a cycle-shaped table the finished pass has one chain; it holds
\* every adjacency but the lightest, the edges rejected as closing a cycle
\* are the readings of the lightest adjacency and of no other, and the one
\* contig written lists every block once.
C8_CycleDropsLightest ==
    (pc = "done" /\ IsCycleTable(input)) =>
        LET m == Lightest(input)
        IN  /\ Cardinality(ChainIds) = 1
            /\ \A c \in ChainIds : Len(mapClasses[c]) = Len(input) - 1
            /\ \A k \in 1..Len(input) : Held(Fwd(input[k])) <=> k # m
            /\ WithOutcome(CYCLE) # {}
            /\ WithOutcome(CYCLE) \subseteq AdjKeys(input[m])
            /\ Len(out_anc) = 1
            /\ Len(out_anc[1]) = Len(input)
            /\ DistinctBlocks(out_anc[1], Len(input))

\* The pass has finished on a cycle of three blocks.
C8_Witness == pc = "done" /\ IsCycleTable(input) /\ Len(input) = 3

RevComp(w) == [k \in 1..Len(w) |-> -w[Len(w) + 1 - k]]

\* C9: for a path-shaped table the finished pass writes exactly one contig,
\* which lists the blocks of the path in path order with their orientations
\* or is the reverse complement of that list.
C9_PathOneContig ==
    (pc = "done" /\ IsPathTable(input)) =>
        /\ Len(out_anc) = 1
        /\ \E w \in PathWalks(input) : out_anc[1] = w \/ out_anc[1] = RevComp(w)

\* The pass has finished on a path of four blocks on which two chains were
\* started and then merged.
C9_Witness ==
    /\ pc = "done"
    /\ IsPathTable(input)
    /\ Len(input) = 3
    /\ clscnt = 2
    /\ Cardinality(ChainIds) = 1

\* C11: the pass terminates; every iteration of the loop visits one entry that
\* has not been visited before and that no waiting entry precedes in the
\* sorted order, whatever the iteration does with it (skip, insertion, merge,
\* rejection, new chain); when the pass has finished every entry of the sorted
\* vector has been visited.
C11_TerminatesEachOnce ==
    /\ <>(pc = "done")
    /\ [][pc = "greedy" /\ pc' = "greedy" =>
            \E q \in vecEdges :
                /\ IsNext(q)
                /\ vecEdges' = vecEdges \ {q}
                /\ q.first \notin DOMAIN outcome
                /\ DOMAIN outcome' = DOMAIN outcome \cup {q.first}
                /\ \A k \in DOMAIN outcome : outcome'[k] = outcome[k]]_vars
    /\ [](pc = "done" =>
            /\ vecEdges = {}
            /\ DOMAIN outcome = WeightKeys(numblocks, mapAdjScores))

\* The pass has finished after an insertion, a rejection for a cycle and a
\* merge of two chains.
C11_Witness ==
    /\ pc = "done"
    /\ WithOutcome(SUCCESS) # {}
    /\ WithOutcome(CYCLE) # {}
    /\ clscnt > Cardinality(ChainIds)

\* C20: in every chain, at every point of the pass, the second block and
\* direction of each edge are the first block and direction of the edge that
\* follows it.
C20_ChainContinuous ==
    \A c \in ChainIds :
        \A k \in 1..(Len(mapClasses[c]) - 1) :
            /\ mapClasses[c][k].bid2 = mapClasses[c][k + 1].bid1
            /\ mapClasses[c][k].dir2 = mapClasses[c][k + 1].dir1

\* Two chains have been merged into one of three edges or more, one of
\* which is held in the reverse of the reading it was visited in.
C20_Witness ==
    /\ clscnt > Cardinality(ChainIds)
    /\ \E c \in ChainIds :
          /\ Len(mapClasses[c]) >= 3
          /\ \E k \in 1..Len(mapClasses[c]) :
                outcome[Twin(Key(mapClasses[c][k]))] \in {SUCCESS, "NEW"}

\* C13: map is an involution of the index space 0..2T+1: the second of two
\* calls in a row returns the index the first was made on; map exchanges the
\* Lo index 0 and the Hi index 2T+1, takes a head index e in 1..T to the
\* tail index e+T and a tail index back to its head index, and never leaves
\* the index space.
C13_MapInvolution ==
    pc = "fold" =>
        /\ \A k \in 1..Len(fold_calls) :
              fold_calls[k].f = "map" =>
                  LET i == fold_calls[k].arg
                      r == fold_calls[k].ret
                  IN  /\ r \in 0..Z
                      /\ i = 0 => r = 2 * T + 1
                      /\ i = 2 * T + 1 => r = 0
                      /\ i \in 1..T => r = i + T
                      /\ i \in (T + 1)..(2 * T) => r = i - T
        /\ (Len(fold_calls) = 2 /\ fold_calls[2].f = "map") => fold_calls[2].ret = fold_i

\* map has been called twice in a row, starting from the largest head index.
C13_Witness ==
    /\ pc = "fold"
    /\ T >= 2
    /\ fold_i = T
    /\ Len(fold_calls) = 2
    /\ fold_calls[2].f = "map"

Unbalanced(w) ==
    Cardinality({k \in 1..Len(w) : w[k] = "("}) # Cardinality({k \in 1..Len(w) : w[k] = ")"})

\* C17: a tree file whose parentheses do not balance always ends in the
\* fatal error "unbalanced tree": the parser hands no tree on, never dies
\* otherwise and never reads or writes a slot of its stack that no "(" has
\* pushed.
C17_UnbalancedIsFatal ==
    Unbalanced(treeString) => /\ pc \in {"parse", "errAbort"}
                              /\ ~oob

Flagged == pc \in {"reroot", "tree_done"} /\ pre_reroot = <<>>

LeavesOf(ns, root) == {n \in TreeNodes(ns, root) : isLeaf(ns, n)}

\* C15: identifyOutgroup flags a leaf as outgroup exactly when the designated
\* ancestor is not among the nodes from the leaf up to the root of the parsed
\* tree (the leaf is not below the ancestor); in a tree text without '@' the
\* ancestor is the root and no leaf is flagged.
C15_OutgroupIffOffPath ==
    Flagged =>
        /\ \A n \in LeavesOf(nodes, Phylo) :
              nodes[n].outgroup <=> (n \notin TreeNodes(nodes, Ances))
        /\ (\A k \in 1..Len(treeString) : treeString[k] # "@") =>
              /\ Ances = Phylo
              /\ \A n \in LeavesOf(nodes, Phylo) : ~nodes[n].outgroup

C15_Witness ==
    /\ Flagged
    /\ pc = "reroot"
    /\ \E n \in LeavesOf(nodes, Phylo) : nodes[n].outgroup
    /\ \E n \in LeavesOf(nodes, Phylo) :
          /\ ~nodes[n].outgroup
          /\ nodes[n].parent # Ances

NamesOfLeaves(ns, root) == {ns[n].name : n \in LeavesOf(ns, root)}

\* The bag of distalpha over the nodes of the tree other than its root.
RECURSIVE BranchLengths(_, _)
BranchLengths(ns, S) ==
    IF S = {} THEN EmptyBag
    ELSE LET n == CHOOSE x \in S : TRUE
         IN  BranchLengths(ns, S \ {n}) (+) SetToBag({ns[n].distalpha})

Rerooted == pc = "tree_done" /\ pre_reroot # <<>>

\* C14: modifyTree keeps the set of leaf names, and the bag of branch
\* lengths (distalpha over the nodes other than the root) after it is the
\* bag before it.
C14_RerootKeepsLengths ==
    Rerooted =>
        /\ NamesOfLeaves(nodes, Phylo) = NamesOfLeaves(pre_reroot[1], pre_reroot[2])
        /\ BranchLengths(nodes, TreeNodes(nodes, Phylo) \ {Phylo})
             = BranchLengths(pre_reroot[1], TreeNodes(pre_reroot[1], pre_reroot[2]) \ {pre_reroot[2]})

\* C14 as the code has it: the leaf names are kept, and the bag of branch
\* lengths after modifyTree is the bag before it with one more branch of
\* length 0, the one that joins the ancestor to the new root.
C14_RerootAddsZeroBranch ==
    Rerooted =>
        /\ NamesOfLeaves(nodes, Phylo) = NamesOfLeaves(pre_reroot[1], pre_reroot[2])
        /\ BranchLengths(nodes, TreeNodes(nodes, Phylo) \ {Phylo})
             = BranchLengths(pre_reroot[1], TreeNodes(pre_reroot[1], pre_reroot[2]) \ {pre_reroot[2]})
               (+) SetToBag({0})
        /\ nodes[pre_reroot[3]].distalpha = 0
        /\ nodes[pre_reroot[3]].parent = Phylo

C14_Witness ==
    /\ Rerooted
    /\ nodes[pre_reroot[2]].distalpha > 0
    /\ pre_reroot[1][pre_reroot[3]].parent # pre_reroot[2]
    /\ \E n \in TreeNodes(nodes, Phylo) :
          nodes[n].distalpha # pre_reroot[1][n].distalpha /\ n # pre_reroot[3]

\* C12: every probability written to the table of adjacencies.prob lies in
\* (0, 1]: it is not 0, not above 1 and not the undefined quotient 0/0.
C12_PosteriorInUnitInterval ==
    \A k \in 1..Len(table) :
        /\ table[k].den > 0
        /\ table[k].num > 0
        /\ table[k].num <= table[k].den

NamedIds ==
    UNION {UNION {{genome[b][c][k] : k \in 1..Len(genome[b][c])} : c \in 1..Len(genome[b])} :
           b \in DOMAIN genome}
    \cup UNION {UNION {{joins[b][k][1], joins[b][k][2]} : k \in 1..Len(joins[b])} :
                b \in DOMAIN joins}

\* C18: when a leaf genome or a joins file names an element whose absolute
\* id is larger than T, the run ends in a fatal error before a compatibility
\* bit is set: it never gets past initSets.
C18_OutOfRangeIsFatal ==
    (pc # "total" /\ \E e \in NamedIds : Abs(e) > T)
        => /\ pc \in {"alloc", "sets", "errAbort"}
           /\ DPPI = {}

LinesOf(i, j) == {k \in 1..Len(table) : table[k].i = i /\ table[k].j = j}

\* C19: the table has exactly one line for every compatible pair (i, j) of
\* which i or j is not a sentinel index (0 or 2T+1), and no line for a pair
\* that is not compatible or is made of two sentinels.
C19_OneLinePerPair ==
    pc = "prob_done" =>
        /\ \A k \in 1..Len(table) : table[k].i \in A..Z /\ table[k].j \in A..Z
        /\ \A i \in A..Z, j \in A..Z :
              Cardinality(LinesOf(i, j))
                = IF Val(DPPI, i, j) /\ ~(i \in {A, Z} /\ j \in {A, Z}) THEN 1 ELSE 0
        /\ \A k \in 1..Len(table) : table[k].a = pam(table[k].i) /\ table[k].b = pam(table[k].j)

C19_Witness ==
    /\ pc = "prob_done"
    /\ \E k \in 1..Len(table) : table[k].i = A
    /\ \E k \in 1..Len(table) : table[k].j = Z
    /\ \E k \in 1..Len(table) : table[k].i \notin {A, Z} /\ table[k].j \notin {A, Z}
    /\ \E i \in (A + 1)..(Z - 1), j \in (A + 1)..(Z - 1) : ~Val(DPPI, i, j)

WriteOnce(c) == \A k \in DOMAIN c : k \in DOMAIN c' /\ c'[k] = c[k]

\* C16: prob and preLikelihood are each computed at most once for a key
\* (node, i, j); an entry of lp_cache or ll_cache, once made, stays as it is,
\* and a lookup answered from a cache returns the value stored under the key.
C16_CachesWriteOnce ==
    /\ [](\A k \in DOMAIN computed : computed[k] <= 1)
    /\ [](\A h \in hits :
            \/ h[1] = "lp" /\ h[2] \in DOMAIN lp_cache /\ lp_cache[h[2]] = h[3]
            \/ h[1] = "ll" /\ h[2] \in DOMAIN ll_cache /\ ll_cache[h[2]] = h[3])
    /\ [][WriteOnce(lp_cache) /\ WriteOnce(ll_cache)]_vars

C16_Witness ==
    /\ pc = "prob_done"
    /\ \E h \in hits : h[1] = "lp"
    /\ \E h \in hits : h[1] = "ll"
    /\ \E k \in DOMAIN computed : k[1] = "pre" /\ k[2] = Ances
    /\ \E k \in DOMAIN computed : k[1] = "pre" /\ k[2] # Ances /\ ~isLeaf(nodes, k[2])

Parsed == pc = "outgroup"

\* C30: after parsing, the distalpha of every node but the root is alpha
\* times the branch length written after that node in the tree file; a
\* node with no branch length written after it has none, whatever was read
\* for the nodes before it.
C30_OwnBranchLength ==
    Parsed =>
        \A n \in TreeNodes(nodes, Phylo) \ {Phylo} :
            nodes[n].distalpha = IF n \in DOMAIN written THEN alpha * written[n] ELSE 0

\* A chain read from its other end: the edges in reverse order, each one
\* reversed.
Backwards(le) == [k \in 1..Len(le) |-> reverse(le[Len(le) + 1 - k])]

RECURSIVE TotalLen(_, _)
TotalLen(mc, S) ==
    IF S = {} THEN 0
    ELSE LET b == CHOOSE x \in S : TRUE IN Len(mc[b]) + TotalLen(mc, S \ {b})

\* The step is an iteration of main in which insertEdge returned SUCCESS.
InsertStep ==
    /\ pc = "greedy"
    /\ \E k \in DOMAIN outcome' : k \notin DOMAIN outcome /\ outcome'[k] = SUCCESS

\* The adjacencies held by the chains of mc, each in both readings.
Adjacencies(mc) ==
    UNION {UNION {{Key(mc[d][n]), Twin(Key(mc[d][n]))} : n \in 1..Len(mc[d])} :
           d \in DOMAIN mc}

\* C21: when mergeLists splices chains into the chain A an edge was put in,
\* the spliced chains leave the set of chains, A holds its own edges with
\* each spliced chain before or after them, whole and in order or whole
\* and read backwards, every other chain is as it was, no adjacency is lost
\* or held twice, and the registry is as insertEdge left it.
C21_MergeSplices ==
    [][InsertStep =>
        LET q    == CHOOSE x \in vecEdges : x \notin vecEdges'
            e    == EdgeOf(q)
            c    == FirstChain(e, mapClasses, mapUsed)
            r    == insertEdge(mapClasses[c], e, mapUsed)
            mc1  == [mapClasses EXCEPT ![c] = r.le]
            Gone == (DOMAIN mapClasses) \ (DOMAIN mapClasses')
            Pieces == {<<>>} \cup {mapClasses[b] : b \in Gone}
                             \cup {Backwards(mapClasses[b]) : b \in Gone}
        IN  /\ c \in DOMAIN mapClasses'
            /\ DOMAIN mapClasses' \subseteq DOMAIN mapClasses
            /\ \E x \in Pieces, y \in Pieces : mapClasses'[c] = x \o r.le \o y
            /\ Len(mapClasses'[c]) = Len(r.le) + TotalLen(mapClasses, Gone)
            /\ \A d \in (DOMAIN mapClasses') \ {c} : mapClasses'[d] = mapClasses[d]
            /\ Adjacencies(mapClasses') = Adjacencies(mc1)
            /\ mapUsed' = r.used
            /\ clscnt' = clscnt]_vars

C21_Witness ==
    /\ pc = "greedy"
    /\ clscnt >= Cardinality(ChainIds) + 1
    /\ \E c \in ChainIds :
          /\ Len(mapClasses[c]) >= 3
          /\ \E k \in 1..(Len(mapClasses[c]) - 1) :
                /\ Key(mapClasses[c][k]) \notin WithOutcome(SUCCESS) \cup WithOutcome("NEW")
                /\ Key(mapClasses[c][k + 1]) \notin WithOutcome(SUCCESS) \cup WithOutcome("NEW")

\* The step is an iteration of main for an edge that passes the threshold
\* and the registry test and for which insertEdge returns FAIL on every
\* chain.
NoChainStep ==
    /\ pc = "greedy"
    /\ vecEdges' # vecEdges
    /\ LET e == EdgeOf(CHOOSE x \in vecEdges : x \notin vecEdges')
       IN  /\ e.weight >= gMIN_WEIGHT
           /\ ~EndInUse(e, mapUsed)
           /\ \A c \in ChainIds : insertEdge(mapClasses[c], e, mapUsed).res = FAIL

\* C22: an edge that passes the threshold and the registry test and that
\* fits no chain starts a new chain holding that edge alone, under an id
\* larger than every id given before; the other chains are as they were,
\* and the registry gains the keys of the edge's non-sentinel ends.
C22_NewSingletonChain ==
    [][NoChainStep =>
        LET e   == EdgeOf(CHOOSE x \in vecEdges : x \notin vecEdges')
            new == CHOOSE c \in DOMAIN mapClasses' : c \notin ChainIds
        IN  /\ DOMAIN mapClasses' = ChainIds \cup {new}
            /\ Cardinality(DOMAIN mapClasses') = Cardinality(ChainIds) + 1
            /\ mapClasses'[new] = <<e>>
            /\ \A c \in ChainIds : mapClasses'[c] = mapClasses[c] /\ c < new
            /\ new > clscnt /\ clscnt' = new
            /\ mapUsed' = mapUsed
                  \cup {IF e.dir1 = 1 THEN -e.bid1 ELSE e.bid1 : x \in {e.bid1} \ {0}}
                  \cup {IF e.dir2 = 1 THEN e.bid2 ELSE -e.bid2 : x \in {e.bid2} \ {0}}]_vars

\* A later chain was started, by an edge with one end at the sentinel, and
\* is still a chain of that edge alone next to an earlier chain.
C22_Witness ==
    /\ pc = "greedy"
    /\ clscnt >= 2
    /\ clscnt \in ChainIds
    /\ Cardinality(ChainIds) >= 2
    /\ Len(mapClasses[clscnt]) = 1
    /\ Key(mapClasses[clscnt][1]) \in WithOutcome("NEW")
    /\ mapClasses[clscnt][1].bid1 = 0 \/ mapClasses[clscnt][1].bid2 = 0

\* The places of the ancestor file that name block b: <<contig, position>>.
PlacesOf(b) ==
    UNION {{<<k, n>> : n \in {x \in 1..Len(out_anc[k]) : Abs(out_anc[k][x]) = b}} :
           k \in 1..Len(out_anc)}

\* C27: the ancestor file names every block at most once: in at most one
\* contig, and at most once inside it.
C27_BlockInOneContig ==
    pc = "done" => \A b \in 1..numblocks : Cardinality(PlacesOf(b)) <= 1

\* The child slots of the nodes of ns that hold node n: <<node, slot>>.
SlotsHolding(ns, n) ==
    {<<m, "left">> : m \in {x \in 1..Len(ns) : ns[x].left = n}}
    \cup {<<m, "right">> : m \in {x \in 1..Len(ns) : ns[x].right = n}}

\* C28: after modifyTree the root (Phylo, which is Ances) has no parent and
\* sits in no child slot, every other node has a parent and sits in exactly
\* one child slot, a slot of that parent, and every node of the parsed tree
\* is reached from the root by child links.  (A node has two child slots, so
\* none has more than two children.)
C28_RerootedTreeWellFormed ==
    Rerooted =>
        /\ Ances = Phylo
        /\ nodes[Phylo].parent = 0
        /\ SlotsHolding(nodes, Phylo) = {}
        /\ \A n \in (1..Len(nodes)) \ {Phylo} :
              /\ nodes[n].parent # 0
              /\ Cardinality(SlotsHolding(nodes, n)) = 1
              /\ \A sl \in SlotsHolding(nodes, n) : sl[1] = nodes[n].parent
        /\ TreeNodes(pre_reroot[1], pre_reroot[2]) \subseteq TreeNodes(nodes, Phylo)

SetsDone == pc \in {"pred", "succ", "norm", "post", "prob_done"}

\* C29: after initSets, whenever (i, j) is marked compatible in DPPI,
\* (map(j), map(i)) is marked compatible too.
C29_ClosedUnderReverse ==
    SetsDone =>
        \A i \in A..Z, j \in A..Z :
            Val(DPPI, i, j) => Val(DPPI, map(j), map(i))

\* The calls getLL(node, i, j) made so far for a leaf.
LeafCalls == {k \in DOMAIN ll_cache : isLeaf(nodes, k[1])}

\* C23: the value of preLikelihood(leaf, i, j) is 1 when the leaf's marker
\* there[j] is not set, and otherwise the bit (i, j) of the leaf's P: 1 when
\* it is set, 0 when it is not.
C23_LeafLikelihood ==
    \A k \in LeafCalls :
        ll_cache[k] = IF k[3] \notin there[k[1]] THEN 1
                      ELSE IF (k[2] * N + k[3]) \in leafP[k[1]] THEN 1 ELSE 0

\* All three cases have occurred, and two leaves differ on one pair.
C23_Witness ==
    /\ \E k \in LeafCalls : k[3] \notin there[k[1]] /\ ll_cache[k] = 1
    /\ \E k \in LeafCalls : k[3] \in there[k[1]] /\ ll_cache[k] = 1
    /\ \E k \in LeafCalls : k[3] \in there[k[1]] /\ ll_cache[k] = 0
    /\ \E k \in LeafCalls, m \in LeafCalls :
          k[2] = m[2] /\ k[3] = m[3] /\ ll_cache[k] # ll_cache[m]

\* The likelihood of (i, j) at node n as a product over the children of n of
\* sums over the indices s of A..last with (s, j) compatible, with no cache;
\* in the units of prob.
RECURSIVE Likelihood(_, _, _, _)
RECURSIVE SideSum(_, _, _, _, _)
SideSum(c, i, j, S, last) ==
    IF S = {} THEN 0
    ELSE LET s == CHOOSE x \in S : TRUE
         IN  prob(c, i, s) * Likelihood(c, s, j, last) + SideSum(c, i, j, S \ {s}, last)

Likelihood(n, i, j, last) ==
    IF isLeaf(nodes, n)
    THEN (IF j \notin there[n] THEN 1 ELSE IF (i * N + j) \in leafP[n] THEN 1 ELSE 0)
    ELSE (IF nodes[n].left = 0 THEN 1
          ELSE SideSum(nodes[n].left, i, j, {s \in A..last : Val(DPPI, s, j)}, last))
         * (IF nodes[n].right = 0 THEN 1
            ELSE SideSum(nodes[n].right, i, j, {s \in A..last : Val(DPPI, s, j)}, last))

\* Every value stored for an inner node, and every entry of PLH, is the
\* likelihood with the sums running over A..last.
InnerValuesAre(last) ==
    /\ \A k \in DOMAIN ll_cache :
          ~isLeaf(nodes, k[1]) => ll_cache[k] = Likelihood(k[1], k[2], k[3], last)
    /\ \A k \in DOMAIN PLH : PLH[k] = Likelihood(Ances, k[1], k[2], last)

SuccessorDone == pc \in {"norm", "post", "prob_done"}

\* C25: after getSuccessor, for every pair (p, s) whose entry v of the
\* predecessor table PLH is positive, the successor table SLH holds v at
\* (map(s), map(p)), and every positive entry of SLH is at such a place.
C25_SuccessorIsFoldedPredecessor ==
    SuccessorDone =>
        /\ \A k \in DOMAIN PLH :
              PLH[k] > 0 =>
                  /\ <<map(k[2]), map(k[1])>> \in DOMAIN SLH
                  /\ SLH[<<map(k[2]), map(k[1])>>] = PLH[k]
        /\ \A q \in DOMAIN SLH :
              SLH[q] > 0 =>
                  \E k \in DOMAIN PLH :
                      PLH[k] = SLH[q] /\ q = <<map(k[2]), map(k[1])>>

\* The successor table holds the image of an entry of the row of the start
\* sentinel and the image of an entry of another row, with different values.
C25_Witness ==
    /\ SuccessorDone
    /\ \E k \in DOMAIN PLH, m \in DOMAIN PLH :
          /\ k[1] = A /\ PLH[k] > 0
          /\ m[1] # A /\ PLH[m] > 0
          /\ PLH[k] # PLH[m]
          /\ SLH[<<map(m[2]), map(m[1])>>] = PLH[m]

Normalized == pc \in {"post", "prob_done"}

\* A quotient that is a number: not 0/0.
Defined(f) == f[2] # 0

\* C26: after normalize, for every compatible pair (0, j) the successor
\* posterior SPP(0, j) is the predecessor posterior PPP(0, j), for every
\* compatible pair (i, Z) the predecessor posterior PPP(i, Z) is the
\* successor posterior SPP(i, Z), and all of these are numbers.
C26_SentinelPosteriorsDefined ==
    Normalized =>
        /\ \A j \in A..Z :
              Val(DPPI, A, j) =>
                  /\ Frac(SPP, A, j) = Frac(PPP, A, j)
                  /\ Defined(Frac(SPP, A, j)) /\ Defined(Frac(PPP, A, j))
        /\ \A i \in A..Z :
              Val(DPPI, i, Z) =>
                  /\ Frac(PPP, i, Z) = Frac(SPP, i, Z)
                  /\ Defined(Frac(PPP, i, Z)) /\ Defined(Frac(SPP, i, Z))
====
